---- MODULE Spec2Model ----
(***************************************************************************)
(* Event-photo-sharing backend: the ownership / visibility authorization   *)
(* model, photo moderation with its notification side effect, and the      *)
(* storage-quota gate of the cover upload.  The relational store is the    *)
(* three tables users, events, photos.  Every HTTP handler is an operator  *)
(* from its inputs and the current store to its outcome: the store it      *)
(* leaves and the response it sends; Perform makes an outcome a step.      *)
(* update_photo is two steps: its commit, then its notification.           *)
(*                                                                         *)
(* Conventions.  A nullable text column holds NULL or a string; a nullable *)
(* boolean column holds NoBool or <<b>>; a size column (stored as text)    *)
(* holds NoText or <<chars>>, chars being the sequence of its characters.  *)
(* Free-text columns without logic of their own (description, date) are    *)
(* represented by the column name alone.                                   *)
(***************************************************************************)
EXTENDS Integers, Sequences, FiniteSets, TLC

VARIABLES
    users,       \* table users:  id -> [email, name, avatar_file_size]
    events,      \* table events: id -> row
    photos,      \* table photos: id -> row
    next_event,  \* the next fresh event id (uuid4 never repeats)
    next_photo,  \* the next fresh photo id (uuid4 never repeats)
    inflight     \* update_photo requests that committed and have not yet notified

vars == <<users, events, photos, next_event, next_photo, inflight>>

----------------------------------------------------------------------------
(* Bounds of the model *)

MaxEvents == 1     \* the largest event id handed out
MaxPhotos == 2     \* the largest photo id handed out

----------------------------------------------------------------------------
(* Values *)

NULL == "NULL"
NoBool == <<>>
NoText == <<>>
Some(v) == <<v>>

MiB == 1024 * 1024
MAX_UPLOAD_SIZE_PER_USER == 1 * 1024 * 1024 * 1024
max_size == 10 * 1024 * 1024

\* settings.frontend_url, as its characters ("u" stands for the scheme and host)
frontend_url == <<"u", "/">>

\* The verified subjects the identity provider can present: u3 is a rotated
\* external id of the e-mail address first seen as u1.
Subject(uid, email, name) == [uid |-> uid, email |-> email, name |-> name]
Ann == Subject("u1", "a@x", "Ann")
Bob == Subject("u2", "b@x", NULL)
AnnRotated == Subject("u3", "a@x", NULL)

Max(a, b) == IF a > b THEN a ELSE b
Min(a, b) == IF a < b THEN a ELSE b

RECURSIVE SumOver(_, _)
SumOver(S, f) ==
    IF S = {} THEN 0
    ELSE LET x == CHOOSE y \in S : TRUE IN f[x] + SumOver(S \ {x}, f)

RECURSIVE SetToSeqAsc(_)
SetToSeqAsc(S) ==
    IF S = {} THEN <<>>
    ELSE LET m == CHOOSE y \in S : \A z \in S : y <= z
         IN <<m>> \o SetToSeqAsc(S \ {m})

Reverse(s) == [i \in 1..Len(s) |-> s[Len(s) + 1 - i]]

----------------------------------------------------------------------------
(* Text <-> integer, as the store and the handlers convert sizes *)

DigitChars == <<"0", "1", "2", "3", "4", "5", "6", "7", "8", "9">>
IsDigit(c) == \E d \in 1..10 : DigitChars[d] = c
DigitValue(c) == (CHOOSE d \in 1..10 : DigitChars[d] = c) - 1

\* str(n) for n >= 0
RECURSIVE ToText(_)
ToText(n) ==
    IF n < 10 THEN <<DigitChars[n + 1]>>
    ELSE ToText(n \div 10) \o <<DigitChars[(n % 10) + 1]>>

RECURSIVE DigitsValue(_)
DigitsValue(t) ==
    IF t = <<>> THEN 0
    ELSE 10 * DigitsValue(SubSeq(t, 1, Len(t) - 1)) + DigitValue(t[Len(t)])

AllDigits(t) == Len(t) > 0 /\ \A i \in 1..Len(t) : IsDigit(t[i])

\* A text the integer parsers accept: digits, with an optional leading minus.
IsIntegerText(t) ==
    \/ AllDigits(t)
    \/ Len(t) > 1 /\ t[1] = "-" /\ AllDigits(Tail(t))

IntegerValue(t) ==
    IF t[1] = "-" THEN 0 - DigitsValue(Tail(t)) ELSE DigitsValue(t)

----------------------------------------------------------------------------
(* Rows of the users and photos tables *)

Jpg == <<"a", "jpg">>

StoredUser(user_info) ==
    [email |-> user_info.email, name |-> user_info.name, avatar_file_size |-> NoText]

\* A url is the list of its '/'-separated segments, a segment the list of its
\* '.'-separated parts.
StoredPhoto(photo_id, event_id, filename, caption, approved, uploaded_by, file_size) ==
    [event_id |-> event_id,
     url |-> <<<<"https:">>, <<"">>, <<"storage", "example", "com">>,
               <<"photos">>, <<photo_id>>, filename>>,
     thumbnail_url |-> <<<<"https:">>, <<"">>, <<"storage", "example", "com">>,
                         <<"photos">>, <<photo_id>>, <<"thumb_">> \o filename>>,
     caption |-> caption,
     approved |-> approved,
     uploaded_at |-> photo_id,
     uploaded_by |-> uploaded_by,
     file_size |-> file_size]

----------------------------------------------------------------------------
(* Responses *)

NoBody == [kind |-> "none"]
NoReq == [none |-> TRUE]

\* A completed request: who asked what, and the status, detail and body sent back.
\* notif: the notifications this request dispatched; cdn: its asset-store calls.
Response(op, uid, event, photo, req, status, detail, body) ==
    [op |-> op, uid |-> uid, event |-> event, photo |-> photo, req |-> req,
     status |-> status, detail |-> detail, body |-> body,
     notif |-> <<>>, cdn |-> <<>>]

Anonymous == "anonymous"
NoResponse == [op |-> "none", status |-> 0]

\* An outcome that leaves the store as it is and answers r.
Same(r) ==
    [users |-> users, events |-> events, photos |-> photos,
     next_event |-> next_event, next_photo |-> next_photo,
     inflight |-> inflight, resp |-> r]

\* The step of a handler whose outcome is out.
Perform(out) ==
    /\ users' = out.users
    /\ events' = out.events
    /\ photos' = out.photos
    /\ next_event' = out.next_event
    /\ next_photo' = out.next_photo
    /\ inflight' = out.inflight

----------------------------------------------------------------------------
(* services/firebase.py, dependencies.py *)

\* The bearer tokens the identity provider has issued, and what has become of them.
ValidTokens == {"tok_u1", "tok_u2", "tok_u3"}
Tokens == ValidTokens \cup {"invalid", "expired", "revoked"}

Nobody == Subject("nobody", "nobody", NULL)

\* verify_firebase_token: the decoded subject, or 401 with the reason.
verify_firebase_token(token) ==
    IF token = "tok_u1" THEN [status |-> 200, detail |-> "ok", user |-> Ann]
    ELSE IF token = "tok_u2" THEN [status |-> 200, detail |-> "ok", user |-> Bob]
    ELSE IF token = "tok_u3" THEN [status |-> 200, detail |-> "ok", user |-> AnnRotated]
    ELSE IF token = "expired"
    THEN [status |-> 401, detail |-> "Authentication token has expired", user |-> Nobody]
    ELSE IF token = "revoked"
    THEN [status |-> 401, detail |-> "Authentication token has been revoked",
          user |-> Nobody]
    ELSE [status |-> 401, detail |-> "Invalid authentication token", user |-> Nobody]

\* scheme.lower() == "bearer"
IsBearer(scheme) == scheme \in {"Bearer", "bearer", "BEARER"}

\* get_current_user: authorization is the list of the header's blank-separated
\* words (authorization.split()), empty for a missing or empty header.
get_current_user(authorization) ==
    IF authorization = <<>>
    THEN [status |-> 401, detail |-> "Authorization header missing", user |-> Nobody]
    ELSE IF Len(authorization) # 2 \/ ~IsBearer(authorization[1])
    THEN [status |-> 401,
          detail |-> "Invalid authorization header format. Expected: Bearer <token>",
          user |-> Nobody]
    ELSE verify_firebase_token(authorization[2])

\* A dependency resolved after the handler has run: the 401 comes too late.
Depends_after_handler(authorization, out) ==
    LET who == get_current_user(authorization) IN
    IF who.status # 200
    THEN [out EXCEPT !.resp = Response("get_current_user", Anonymous, 0, 0, NoReq,
                                       who.status, who.detail, NoBody)]
    ELSE out

\* user = Depends(get_current_user): the handler, whose outcome is out, runs
\* only when the dependency has produced a user.
Depends(authorization, out) ==
    LET who == get_current_user(authorization) IN
    IF who.status # 200
    THEN Same(Response("get_current_user", Anonymous, 0, 0, NoReq,
                       who.status, who.detail, NoBody))
    ELSE out

----------------------------------------------------------------------------
(* crud.py *)

UsersWithEmail(email) == {id \in DOMAIN users : users[id].email = email}

\* A resolver that looks the subject up by its external id instead.
get_or_create_user_by_id(user_info) ==
    IF user_info.uid \in DOMAIN users
    THEN [ok |-> TRUE, id |-> user_info.uid, users |-> users]
    ELSE [ok |-> TRUE, id |-> user_info.uid,
          users |-> users @@ (user_info.uid :> StoredUser(user_info))]

\* get_or_create_user: the lookup is by e-mail; an existing row keeps its id and
\* has its name refreshed; an unseen e-mail is inserted under the external id.
\* The insert fails (primary key) when that id is already stored under another
\* e-mail: the exception leaves the table as it was.
get_or_create_user(user_info) ==
    LET found == UsersWithEmail(user_info.email) IN
    IF found # {}
    THEN LET id == CHOOSE i \in found : TRUE
             refresh == users[id].name # user_info.name /\ user_info.name # NULL
         IN [ok |-> TRUE, id |-> id,
             users |-> IF refresh
                       THEN [users EXCEPT ![id].name = user_info.name]
                       ELSE users]
    ELSE IF user_info.uid \in DOMAIN users
         THEN [ok |-> FALSE, id |-> NULL, users |-> users]
         ELSE [ok |-> TRUE, id |-> user_info.uid,
               users |-> users @@ (user_info.uid :> StoredUser(user_info))]

\* SUM(CAST(col AS INTEGER)) over a set of rows: NULL sizes are skipped by SUM;
\* the cast of a text that is no integer makes the statement fail.
SumCast(sizes) ==
    LET rows == DOMAIN sizes
        present == {r \in rows : sizes[r] # NoText}
    IN IF \E r \in present : ~IsIntegerText(sizes[r][1])
       THEN [ok |-> FALSE, sum |-> 0]
       ELSE [ok |-> TRUE,
             sum |-> SumOver(present, [r \in present |-> IntegerValue(sizes[r][1])])]

\* A usage that leaves the covers out: photos and avatar only.
get_user_upload_size_without_covers(user_id) ==
    LET mine == {p \in DOMAIN photos : photos[p].uploaded_by = user_id}
        photo_size == SumCast([p \in mine |-> photos[p].file_size])
        avatar == IF user_id \in DOMAIN users /\ users[user_id].avatar_file_size # NoText
                     /\ users[user_id].avatar_file_size[1] # <<>>
                     /\ IsIntegerText(users[user_id].avatar_file_size[1])
                  THEN IntegerValue(users[user_id].avatar_file_size[1])
                  ELSE 0
    IN IF photo_size.ok
       THEN [ok |-> TRUE, size |-> photo_size.sum + avatar]
       ELSE [ok |-> FALSE, size |-> 0]

\* get_user_upload_size: photos attributed to the user + covers of the events the
\* user hosts + the user's avatar; the avatar alone is parsed defensively.
get_user_upload_size(user_id) ==
    LET mine == {p \in DOMAIN photos : photos[p].uploaded_by = user_id}
        photo_size == SumCast([p \in mine |-> photos[p].file_size])
        hosted == {e \in DOMAIN events :
                      events[e].host_id = user_id /\ user_id \in DOMAIN users}
        event_cover_size == SumCast([e \in hosted |-> events[e].cover_image_file_size])
        avatar == IF user_id \in DOMAIN users /\ users[user_id].avatar_file_size # NoText
                     /\ users[user_id].avatar_file_size[1] # <<>>
                     /\ IsIntegerText(users[user_id].avatar_file_size[1])
                  THEN IntegerValue(users[user_id].avatar_file_size[1])
                  ELSE 0
    IN IF photo_size.ok /\ event_cover_size.ok
       THEN [ok |-> TRUE, size |-> photo_size.sum + event_cover_size.sum + avatar]
       ELSE [ok |-> FALSE, size |-> 0]

----------------------------------------------------------------------------
(* routers/events.py: helpers *)

RECURSIVE rstrip_slash(_)
rstrip_slash(s) ==
    IF s # <<>> /\ s[Len(s)] = "/" THEN rstrip_slash(SubSeq(s, 1, Len(s) - 1)) ELSE s

generate_share_link(event_id) ==
    rstrip_slash(frontend_url) \o <<"/", "event", "/", event_id>>

PhotosOf(event_id) == {p \in DOMAIN photos : photos[p].event_id = event_id}
ApprovedPhotosOf(event_id) == {p \in PhotosOf(event_id) : photos[p].approved = Some(TRUE)}

\* event_to_response: the host view, share_link and photo_count derived.
event_to_response(event_id, event, photo_count) ==
    [kind |-> "EventResponse",
     id |-> event_id,
     host_id |-> event.host_id,
     name |-> event.name,
     password |-> event.password,
     cover_image_url |-> event.cover_image_url,
     cover_thumbnail_url |-> event.cover_thumbnail_url,
     cover_image_file_size |-> event.cover_image_file_size,
     is_active |-> event.is_active,
     is_archived |-> event.is_archived,
     created_at |-> event.created_at,
     updated_at |-> IF event.updated_at # NULL THEN event.updated_at ELSE event.created_at,
     photo_count |-> photo_count,
     share_link |-> generate_share_link(event_id)]

\* The ownership check made first: an event that is not there is not the caller's.
verify_event_ownership_owner_first(event_id, user_id) ==
    IF event_id \notin DOMAIN events \/ events[event_id].host_id # user_id
    THEN [status |-> 403, detail |-> "You do not have permission to perform this action on the specified event."]
    ELSE [status |-> 200, detail |-> "ok"]

\* verify_event_ownership: 404 before 403; reads only.
verify_event_ownership(event_id, user_id) ==
    IF event_id \notin DOMAIN events
    THEN [status |-> 404, detail |-> "Event with ID not found."]
    ELSE IF events[event_id].host_id # user_id
    THEN [status |-> 403, detail |-> "You do not have permission to perform this action on the specified event."]
    ELSE [status |-> 200, detail |-> "ok"]

----------------------------------------------------------------------------
(* routers/public.py: helpers *)

\* The lookup without its archive condition.
get_event_by_slug_ignoring_archive(slug) ==
    IF slug \in DOMAIN events /\ events[slug].is_active = TRUE
    THEN [status |-> 200, detail |-> "ok"]
    ELSE [status |-> 404, detail |-> "Event not found or not available for public access."]

\* A lookup that words its 404 differently for an event that is there but hidden.
get_event_by_slug_telling_hidden(slug) ==
    IF slug \notin DOMAIN events
    THEN [status |-> 404, detail |-> "Event not found."]
    ELSE IF events[slug].is_active = TRUE /\ events[slug].is_archived = FALSE
    THEN [status |-> 200, detail |-> "ok"]
    ELSE [status |-> 404, detail |-> "Event is not available for public access."]

\* get_event_by_slug: the slug is the event id; one 404 for absent and hidden.
get_event_by_slug(slug) ==
    IF /\ slug \in DOMAIN events
       /\ events[slug].is_active = TRUE
       /\ events[slug].is_archived = FALSE
    THEN [status |-> 200, detail |-> "ok"]
    ELSE [status |-> 404, detail |-> "Event not found or not available for public access."]

\* A comparison that accepts whatever password is supplied.
verify_event_password_any_supplied(event, password) == password # NULL

\* verify_event_password: no stored password (None or empty) is no gate.
verify_event_password(event, password) ==
    IF event.password = NULL \/ event.password = "" THEN TRUE
    ELSE event.password = password

----------------------------------------------------------------------------
(* routers/events.py: endpoints *)

T_CREATED == "t_created"
T_UPDATED == "t_updated"
NoLink == <<>>

NewEvent(host_id, event_data) ==
    [host_id |-> host_id,
     name |-> event_data.name,
     password |-> event_data.password,
     cover_image_url |-> event_data.cover_image_url,
     cover_thumbnail_url |-> NULL,
     cover_image_file_size |-> NoText,
     is_active |-> TRUE,
     is_archived |-> FALSE,
     created_at |-> T_CREATED,
     updated_at |-> NULL]

\* setattr for every key of dict(exclude_unset=True); the UPDATE (and with it
\* onupdate=now() of updated_at) is emitted only when a column value changed.
ApplyEventUpdate(event, update_data) ==
    LET set == [f \in DOMAIN event |->
                   IF f \in DOMAIN update_data THEN update_data[f] ELSE event[f]]
    IN IF set = event THEN event ELSE [set EXCEPT !.updated_at = T_UPDATED]

\* offset/limit over a result list
Paginate(rows, page, page_size) ==
    LET offset == (page - 1) * page_size
    IN SubSeq(rows, offset + 1, Min(offset + page_size, Len(rows)))

\* has_more with <= for <: true on the page that ends the list.
HasMore_inclusive(rows, page, page_size) ==
    ((page - 1) * page_size + Len(Paginate(rows, page, page_size))) <= Len(rows)

HasMore(rows, page, page_size) ==
    ((page - 1) * page_size + Len(Paginate(rows, page, page_size))) < Len(rows)

\* a row returned as is through response_model=EventResponse (from_attributes):
\* the derived fields keep the response model's defaults.
EventFromAttributes(event_id, event) ==
    [kind |-> "EventResponse",
     id |-> event_id,
     host_id |-> event.host_id,
     name |-> event.name,
     password |-> event.password,
     cover_image_url |-> event.cover_image_url,
     cover_thumbnail_url |-> event.cover_thumbnail_url,
     cover_image_file_size |-> event.cover_image_file_size,
     is_active |-> event.is_active,
     is_archived |-> event.is_archived,
     created_at |-> event.created_at,
     updated_at |-> event.updated_at,
     photo_count |-> 0,
     share_link |-> NoLink]

create_event(user, event_data) ==
    LET host == get_or_create_user(user)
        id == next_event
        new_event == NewEvent(host.id, event_data)
    IN IF ~host.ok
       THEN Same(Response("create_event", user.uid, 0, 0, event_data,
                          500, "Internal Server Error", NoBody))
       ELSE [Same(Response("create_event", user.uid, id, 0, event_data,
                           201, "ok", event_to_response(id, new_event, 0)))
             EXCEPT !.users = host.users,
                    !.events = events @@ (id :> new_event),
                    !.next_event = next_event + 1]

list_events(user, page, page_size) ==
    LET host == get_or_create_user(user)
        req == [page |-> page, page_size |-> page_size]
        mine == SetToSeqAsc({e \in DOMAIN events : events[e].host_id = host.id})
        rows == Paginate(mine, page, page_size)
    IN IF ~host.ok
       THEN Same(Response("list_events", user.uid, 0, 0, req,
                          500, "Internal Server Error", NoBody))
       ELSE [Same(Response("list_events", user.uid, 0, 0, req, 200, "ok",
                   [kind |-> "EventListResponse",
                    events |-> [i \in 1..Len(rows) |->
                        event_to_response(rows[i], events[rows[i]],
                                          Cardinality(PhotosOf(rows[i])))],
                    total |-> Len(mine),
                    page |-> page,
                    page_size |-> page_size,
                    has_more |-> HasMore(mine, page, page_size)]))
             EXCEPT !.users = host.users]

get_event_detail(uid, event_id) ==
    LET v == verify_event_ownership(event_id, uid) IN
    IF v.status # 200
    THEN Same(Response("get_event_detail", uid, event_id, 0, NoReq,
                       v.status, v.detail, NoBody))
    ELSE Same(Response("get_event_detail", uid, event_id, 0, NoReq, 200, "ok",
                       event_to_response(event_id, events[event_id],
                                         Cardinality(PhotosOf(event_id)))))

EventUpdateFields ==
    {"name", "description", "date", "password", "cover_image_url", "is_active",
     "is_archived"}

\* A request model that keeps the keys it does not declare.
EventUpdate_allowing_extra(body) == body

\* EventUpdate(**body).dict(exclude_unset=True): the declared fields that the
\* body gives; a key the model does not declare is dropped.
EventUpdate(body) == [f \in DOMAIN body \cap EventUpdateFields |-> body[f]]

\* name is nullable=False: the UPDATE that sets it to NULL is refused at
\* db.commit() and the exception leaves the handler.  (The flags is_active and
\* is_archived are nullable=False too; the payloads here give them booleans.)
NullInNotNullColumn(update_data) ==
    "name" \in DOMAIN update_data /\ update_data.name = NULL

update_event_metadata(uid, event_id, event_data) ==
    LET v == verify_event_ownership(event_id, uid) IN
    IF v.status # 200
    THEN Same(Response("update_event_metadata", uid, event_id, 0, event_data,
                       v.status, v.detail, NoBody))
    ELSE IF NullInNotNullColumn(event_data)
    THEN Same(Response("update_event_metadata", uid, event_id, 0, event_data,
                       500, "Internal Server Error", NoBody))
    ELSE LET event == ApplyEventUpdate(events[event_id], event_data) IN
         [Same(Response("update_event_metadata", uid, event_id, 0, event_data,
                        200, "ok",
                        event_to_response(event_id, event,
                                          Cardinality(PhotosOf(event_id)))))
          EXCEPT !.events = [events EXCEPT ![event_id] = event]]

\* A delete that removes the event row alone.
delete_event_keeping_photos(uid, event_id) ==
    LET v == verify_event_ownership(event_id, uid) IN
    IF v.status # 200
    THEN Same(Response("delete_event", uid, event_id, 0, NoReq,
                       v.status, v.detail, NoBody))
    ELSE [Same(Response("delete_event", uid, event_id, 0, NoReq, 200,
                        "Event and all associated assets have been deleted.", NoBody))
          EXCEPT !.events = [e \in DOMAIN events \ {event_id} |-> events[e]]]

\* db.delete(event): the photos relationship cascades (all, delete-orphan).
delete_event(uid, event_id) ==
    LET v == verify_event_ownership(event_id, uid) IN
    IF v.status # 200
    THEN Same(Response("delete_event", uid, event_id, 0, NoReq,
                       v.status, v.detail, NoBody))
    ELSE [Same(Response("delete_event", uid, event_id, 0, NoReq, 200,
                        "Event and all associated assets have been deleted.", NoBody))
          EXCEPT !.events = [e \in DOMAIN events \ {event_id} |-> events[e]],
                 !.photos = [p \in DOMAIN photos \ PhotosOf(event_id) |-> photos[p]]]

\* content types are <<type, subtype>>; NoText is a missing or empty one.
\* not file.content_type or not file.content_type.startswith('image/')
IsImage(content_type) == content_type # NoText /\ content_type[1] = "image"

\* The gate that also refuses an upload that fills the quota exactly.
QuotaExceeded_at_ceiling(current_upload_size, file_size) ==
    current_upload_size + file_size >= MAX_UPLOAD_SIZE_PER_USER

\* The quota gate of the cover upload: TRUE when the upload is refused.
QuotaExceeded(current_upload_size, file_size) ==
    current_upload_size + file_size > MAX_UPLOAD_SIZE_PER_USER

\* file: [content_type, size]; upload_ok: whether the asset store accepts the upload.
upload_event_cover_image(uid, event_id, file, upload_ok) ==
    LET v == verify_event_ownership(event_id, uid)
        file_size == file.size
        usage == get_user_upload_size(uid)
        fail(status, detail, cdn) ==
            Same([Response("upload_event_cover_image", uid, event_id, 0, file,
                           status, detail, NoBody) EXCEPT !.cdn = cdn])
    IN IF v.status # 200 THEN fail(v.status, v.detail, <<>>)
       ELSE IF ~IsImage(file.content_type) THEN fail(400, "File must be an image.", <<>>)
       ELSE IF ~usage.ok THEN fail(500, "Internal Server Error", <<>>)
       ELSE IF QuotaExceeded(usage.size, file_size)
            THEN fail(413, "Upload limit exceeded.", <<>>)
       ELSE IF ~upload_ok
            THEN fail(500, "An error occurred during cover image upload",
                      <<[call |-> "upload", ok |-> FALSE]>>)
       ELSE LET event == [events[event_id] EXCEPT
                             !.cover_image_url = "cdn_url",
                             !.cover_thumbnail_url = "cdn_thumb",
                             !.cover_image_file_size = Some(ToText(file_size)),
                             !.updated_at = T_UPDATED]
            IN [Same([Response("upload_event_cover_image", uid, event_id, 0, file,
                               200, "ok", EventFromAttributes(event_id, event))
                      EXCEPT !.cdn = <<[call |-> "upload", ok |-> TRUE]>>])
                EXCEPT !.events = [events EXCEPT ![event_id] = event]]

get_event_qr_code(uid, event_id) ==
    LET v == verify_event_ownership(event_id, uid) IN
    IF v.status # 200
    THEN Same(Response("get_event_qr_code", uid, event_id, 0, NoReq,
                       v.status, v.detail, NoBody))
    ELSE Same(Response("get_event_qr_code", uid, event_id, 0, NoReq, 200, "ok",
                       [kind |-> "png", data |-> generate_share_link(event_id)]))

trigger_event_photos_zip_export(uid, event_id) ==
    LET v == verify_event_ownership(event_id, uid) IN
    IF v.status # 200
    THEN Same(Response("trigger_event_photos_zip_export", uid, event_id, 0, NoReq,
                       v.status, v.detail, NoBody))
    ELSE Same(Response("trigger_event_photos_zip_export", uid, event_id, 0, NoReq,
                       501, "ZIP export functionality is not yet implemented.", NoBody))

\* A list of action names that lets another name through.
BulkEventActions_with_purge == {"archive", "activate", "deactivate", "purge"}

BulkEventActions == {"archive", "activate", "deactivate"}

\* The bulk query without its host filter.
EventsIn(uid, event_ids) == {e \in DOMAIN events : e \in event_ids}

\* The rows of query(Event).filter(Event.id.in_(event_ids), Event.host_id == uid)
OwnedEventsIn(uid, event_ids) ==
    {e \in DOMAIN events : e \in event_ids /\ events[e].host_id = uid}

\* A count of the ids asked for instead of the rows matched.
updated_count_requested(uid, event_ids) == Cardinality(event_ids)

\* updated_count = query.update(...): the number of rows the UPDATE matched.
updated_count(uid, event_ids) == Cardinality(OwnedEventsIn(uid, event_ids))

\* A bulk activate that also takes the event out of the archive.
bulk_actions_on_events_activate_unarchives(uid, event_ids, action) ==
    LET req == [event_ids |-> event_ids, action |-> action]
        matched == OwnedEventsIn(uid, event_ids)
        set(event) ==
            [(IF action = "archive" THEN [event EXCEPT !.is_archived = TRUE]
              ELSE IF action = "activate"
                   THEN [event EXCEPT !.is_active = TRUE, !.is_archived = FALSE]
              ELSE [event EXCEPT !.is_active = FALSE])
             EXCEPT !.updated_at = T_UPDATED]
    IN IF action \notin BulkEventActions
       THEN Same(Response("bulk_actions_on_events", uid, 0, 0, req,
                          400, "Invalid action.", NoBody))
       ELSE [Same(Response("bulk_actions_on_events", uid, 0, 0, req, 200, "ok",
                           [kind |-> "count", count |-> updated_count(uid, event_ids)]))
             EXCEPT !.events = [e \in DOMAIN events |->
                                   IF e \in matched THEN set(events[e]) ELSE events[e]]]

\* One UPDATE ... WHERE id IN (ids) AND host_id = uid; the count is the rows matched.
bulk_actions_on_events(uid, event_ids, action) ==
    LET req == [event_ids |-> event_ids, action |-> action]
        matched == OwnedEventsIn(uid, event_ids)
        set(event) ==
            [(IF action = "archive" THEN [event EXCEPT !.is_archived = TRUE]
              ELSE IF action = "activate" THEN [event EXCEPT !.is_active = TRUE]
              ELSE [event EXCEPT !.is_active = FALSE])
             EXCEPT !.updated_at = T_UPDATED]
    IN IF action \notin BulkEventActions
       THEN Same(Response("bulk_actions_on_events", uid, 0, 0, req,
                          400, "Invalid action.", NoBody))
       ELSE [Same(Response("bulk_actions_on_events", uid, 0, 0, req, 200, "ok",
                           [kind |-> "count", count |-> updated_count(uid, event_ids)]))
             EXCEPT !.events = [e \in DOMAIN events |->
                                   IF e \in matched THEN set(events[e]) ELSE events[e]]]

----------------------------------------------------------------------------
(* routers/photos.py *)

PhotoResponse(photo_id, photo) ==
    [kind |-> "PhotoResponse",
     id |-> photo_id,
     event_id |-> photo.event_id,
     url |-> photo.url,
     thumbnail_url |-> photo.thumbnail_url,
     caption |-> photo.caption,
     approved |-> photo.approved,
     uploaded_at |-> photo.uploaded_at,
     uploaded_by |-> photo.uploaded_by]

\* response_model=PhotoResponse declares approved: bool; a row whose approved is
\* null cannot be serialised and the request ends 500 (after its commit).
Serialisable(photo) == photo.approved # NoBool

PhotoList(rows, page, page_size) ==
    LET shown == Paginate(rows, page, page_size) IN
    [kind |-> "PhotoListResponse",
     photos |-> [i \in 1..Len(shown) |-> PhotoResponse(shown[i], photos[shown[i]])],
     total |-> Len(rows),
     page |-> page,
     page_size |-> page_size,
     has_more |-> HasMore(rows, page, page_size)]

get_event_photos(uid, event_id, page, page_size) ==
    LET v == verify_event_ownership(event_id, uid)
        req == [page |-> page, page_size |-> page_size]
        rows == SetToSeqAsc(PhotosOf(event_id))
        shown == Paginate(rows, page, page_size)
    IN IF v.status # 200
       THEN Same(Response("get_event_photos", uid, event_id, 0, req,
                          v.status, v.detail, NoBody))
       ELSE IF \E i \in DOMAIN shown : ~Serialisable(photos[shown[i]])
       THEN Same(Response("get_event_photos", uid, event_id, 0, req,
                          500, "Internal Server Error", NoBody))
       ELSE Same(Response("get_event_photos", uid, event_id, 0, req, 200, "ok",
                          PhotoList(rows, page, page_size)))

\* query(Photo).filter(Photo.id == photo_id, Photo.event_id == event_id).first()
PhotoInEvent(photo_id, event_id) ==
    photo_id \in DOMAIN photos /\ photos[photo_id].event_id = event_id

\* The query without its event filter: the requested rows of any event.
PhotosInEvent_any_event(photo_ids, event_id) ==
    {p \in DOMAIN photos : p \in photo_ids}

\* The rows of query(Photo).filter(Photo.id.in_(photo_ids), Photo.event_id == event_id)
PhotosInEvent(photo_ids, event_id) ==
    {p \in DOMAIN photos : p \in photo_ids /\ photos[p].event_id = event_id}

\* UpdatePhotoRequest(**body).dict(exclude_unset=True): caption and approved.
UpdatePhotoRequest(body) == [f \in DOMAIN body \cap {"caption", "approved"} |-> body[f]]

\* A merge for which an approval is final: an approved photo stays approved.
ApplyPhotoUpdate_approval_final(photo, update_data) ==
    [f \in DOMAIN photo |->
        IF f \in DOMAIN update_data /\ ~(f = "approved" /\ photo.approved = Some(TRUE))
        THEN update_data[f] ELSE photo[f]]

\* A merge that passes over the keys given with a null value.
ApplyPhotoUpdate_skipping_null(photo, update_data) ==
    [f \in DOMAIN photo |->
        IF /\ f \in DOMAIN update_data
           /\ ~(f = "approved" /\ update_data[f] = NoBool)
           /\ ~(f = "caption" /\ update_data[f] = NULL)
        THEN update_data[f] ELSE photo[f]]

\* setattr for every key of request.dict(exclude_unset=True)
ApplyPhotoUpdate(photo, update_data) ==
    [f \in DOMAIN photo |-> IF f \in DOMAIN update_data THEN update_data[f] ELSE photo[f]]

\* The condition that looks at the new value only: an e-mail for approvals.
ShouldNotify_approvals_only(update_data, old_approved_status, photo, event) ==
    /\ "approved" \in DOMAIN update_data
    /\ photo.uploaded_by # NULL /\ photo.uploaded_by # ""
    /\ photo.uploaded_by # event.host_id
    /\ old_approved_status # photo.approved
    /\ photo.approved = Some(TRUE)

\* The condition without the comparison of old and new value.
ShouldNotify_unchanged_too(update_data, old_approved_status, photo, event) ==
    /\ "approved" \in DOMAIN update_data
    /\ photo.uploaded_by # NULL /\ photo.uploaded_by # ""
    /\ photo.uploaded_by # event.host_id

\* The condition under which update_photo sends an e-mail, evaluated after the
\* commit on the request's payload, the value read before it and the refreshed row.
ShouldNotify(update_data, old_approved_status, photo, event) ==
    /\ "approved" \in DOMAIN update_data
    /\ photo.uploaded_by # NULL /\ photo.uploaded_by # ""
    /\ photo.uploaded_by # event.host_id
    /\ old_approved_status # photo.approved

NotificationKind(photo) == IF photo.approved = Some(TRUE) THEN "approved" ELSE "rejected"

\* update_photo up to and including db.commit() / db.refresh(photo).  When an
\* e-mail is due the request stays in flight (no response yet) until
\* update_photo_notify sends it.
update_photo(uid, event_id, photo_id, request) ==
    LET v == verify_event_ownership(event_id, uid)
        fail(status, detail) ==
            Same(Response("update_photo", uid, event_id, photo_id, request,
                          status, detail, NoBody))
    IN IF v.status # 200 THEN fail(v.status, v.detail)
       ELSE IF ~PhotoInEvent(photo_id, event_id)
       THEN fail(404, "Photo with ID not found in event.")
       ELSE LET event == events[event_id]
                old_approved_status == photos[photo_id].approved
                photo == ApplyPhotoUpdate(photos[photo_id], request)
                done == Response("update_photo", uid, event_id, photo_id, request,
                                 IF Serialisable(photo) THEN 200 ELSE 500,
                                 IF Serialisable(photo) THEN "ok"
                                 ELSE "Internal Server Error",
                                 IF Serialisable(photo)
                                 THEN PhotoResponse(photo_id, photo) ELSE NoBody)
            IN IF ShouldNotify(request, old_approved_status, photo, event)
               THEN [Same(NoResponse) EXCEPT
                        !.photos = [photos EXCEPT ![photo_id] = photo],
                        !.inflight = inflight \cup
                            {[done |-> done, kind |-> NotificationKind(photo),
                              to |-> photo.uploaded_by]}]
               ELSE [Same(done) EXCEPT !.photos = [photos EXCEPT ![photo_id] = photo]]

\* The rest of update_photo with the mail error let through: the request fails.
update_photo_notify_raising(job, mail_ok) ==
    [Same([job.done EXCEPT
              !.status = IF mail_ok THEN job.done.status ELSE 500,
              !.notif = <<[kind |-> job.kind, to |-> job.to, sent |-> mail_ok]>>])
     EXCEPT !.inflight = inflight \ {job}]

\* The rest of update_photo: the e-mail is attempted once, its failure is logged
\* and swallowed, and the response prepared at the commit is returned.
update_photo_notify(job, mail_ok) ==
    [Same([job.done EXCEPT
              !.notif = <<[kind |-> job.kind, to |-> job.to, sent |-> mail_ok]>>])
     EXCEPT !.inflight = inflight \ {job}]

\* A url is the list of its '/'-separated segments, a segment the list of its
\* '.'-separated parts.  "/".join(url.split('/')[-2:]).split('.')[0]
PublicIdOf(url) ==
    LET last2 == SubSeq(url, Max(1, Len(url) - 1), Len(url))
    IN IF Len(last2) = 1 \/ Len(last2[1]) > 1
       THEN <<last2[1][1]>>
       ELSE <<last2[1][1], "/", last2[2][1]>>

\* A delete that lets the failure of delete_image through: 500, the row kept.
delete_photo_raising(uid, event_id, photo_id, delete_ok) ==
    LET v == verify_event_ownership(event_id, uid)
        fail(status, detail) ==
            Same(Response("delete_photo", uid, event_id, photo_id, NoReq,
                          status, detail, NoBody))
    IN IF v.status # 200 THEN fail(v.status, v.detail)
       ELSE IF ~PhotoInEvent(photo_id, event_id)
       THEN fail(404, "Photo with ID not found in event.")
       ELSE IF ~delete_ok THEN fail(500, "Failed to delete image from storage")
       ELSE [Same(Response("delete_photo", uid, event_id, photo_id, NoReq,
                           200, "Photo deleted successfully.", NoBody))
             EXCEPT !.photos = [p \in DOMAIN photos \ {photo_id} |-> photos[p]]]

\* delete_image is attempted once; its failure is logged and swallowed.
delete_photo(uid, event_id, photo_id, delete_ok) ==
    LET v == verify_event_ownership(event_id, uid)
        fail(status, detail) ==
            Same(Response("delete_photo", uid, event_id, photo_id, NoReq,
                          status, detail, NoBody))
    IN IF v.status # 200 THEN fail(v.status, v.detail)
       ELSE IF ~PhotoInEvent(photo_id, event_id)
       THEN fail(404, "Photo with ID not found in event.")
       ELSE [Same([Response("delete_photo", uid, event_id, photo_id, NoReq,
                            200, "Photo deleted successfully.", NoBody)
                   EXCEPT !.cdn = <<[call |-> "delete",
                                     public_id |-> PublicIdOf(photos[photo_id].url),
                                     ok |-> delete_ok]>>])
             EXCEPT !.photos = [p \in DOMAIN photos \ {photo_id} |-> photos[p]]]

\* failing: the photos whose remote asset delete fails
bulk_delete_photos(uid, event_id, photo_ids, failing) ==
    LET v == verify_event_ownership(event_id, uid)
        req == [photo_ids |-> photo_ids]
        photos_to_delete == PhotosInEvent(photo_ids, event_id)
        order == SetToSeqAsc(photos_to_delete)
    IN IF v.status # 200
       THEN Same(Response("bulk_delete_photos", uid, event_id, 0, req,
                          v.status, v.detail, NoBody))
       ELSE [Same([Response("bulk_delete_photos", uid, event_id, 0, req, 200, "ok",
                            [kind |-> "count",
                             count |-> Cardinality(photos_to_delete)])
                   EXCEPT !.cdn = [i \in 1..Len(order) |->
                                     [call |-> "delete",
                                      public_id |-> PublicIdOf(photos[order[i]].url),
                                      ok |-> order[i] \notin failing]]])
             EXCEPT !.photos = [p \in DOMAIN photos \ photos_to_delete |-> photos[p]]]

bulk_download_photos(uid, event_id, photo_ids) ==
    LET v == verify_event_ownership(event_id, uid)
        req == [photo_ids |-> photo_ids]
    IN IF v.status # 200
       THEN Same(Response("bulk_download_photos", uid, event_id, 0, req,
                          v.status, v.detail, NoBody))
       ELSE Same(Response("bulk_download_photos", uid, event_id, 0, req, 200, "ok",
                          [kind |-> "count", count |-> Cardinality(photo_ids)]))

----------------------------------------------------------------------------
(* routers/public.py: endpoints *)

\* The public view that carries the host along.
PublicEventResponse_with_host(event_id, event, approved_photo_count) ==
    [kind |-> "PublicEventResponse",
     id |-> event_id,
     host_id |-> event.host_id,
     name |-> event.name,
     cover_image_url |-> event.cover_image_url,
     has_password |-> event.password # NULL,
     photo_count |-> approved_photo_count,
     is_active |-> event.is_active]

\* PublicEventResponse: neither password nor host_id; the approved photos counted.
PublicEventResponse(event_id, event, approved_photo_count) ==
    [kind |-> "PublicEventResponse",
     id |-> event_id,
     name |-> event.name,
     cover_image_url |-> event.cover_image_url,
     has_password |-> event.password # NULL,
     photo_count |-> approved_photo_count,
     is_active |-> event.is_active]

RECURSIVE SortByUploadedAtDesc(_)
SortByUploadedAtDesc(S) ==
    IF S = {} THEN <<>>
    ELSE LET m == CHOOSE p \in S : \A q \in S :
                     \/ photos[p].uploaded_at > photos[q].uploaded_at
                     \/ photos[p].uploaded_at = photos[q].uploaded_at /\ p >= q
         IN <<m>> \o SortByUploadedAtDesc(S \ {m})

\* The rows of the public listing: approved == True, newest first.
\* The listing query without its approved filter.
PublicRows_unfiltered(event_id) == SortByUploadedAtDesc(PhotosOf(event_id))

PublicRows(event_id) == SortByUploadedAtDesc(ApprovedPhotosOf(event_id))

get_public_event_info(slug) ==
    LET v == get_event_by_slug(slug) IN
    IF v.status # 200
    THEN Same(Response("get_public_event_info", Anonymous, slug, 0, NoReq,
                       v.status, v.detail, NoBody))
    ELSE Same(Response("get_public_event_info", Anonymous, slug, 0, NoReq, 200, "ok",
                       PublicEventResponse(slug, events[slug],
                                           Cardinality(ApprovedPhotosOf(slug)))))

get_public_event_photos(slug, page, page_size) ==
    LET v == get_event_by_slug(slug)
        req == [page |-> page, page_size |-> page_size]
    IN IF v.status # 200
       THEN Same(Response("get_public_event_photos", Anonymous, slug, 0, req,
                          v.status, v.detail, NoBody))
       ELSE Same(Response("get_public_event_photos", Anonymous, slug, 0, req,
                          200, "ok", PhotoList(PublicRows(slug), page, page_size)))

verify_event_password_endpoint(slug, password) ==
    LET v == get_event_by_slug(slug)
        req == [password |-> password]
        reply(status, detail) ==
            Same(Response("verify_event_password_endpoint", Anonymous, slug, 0, req,
                          status, detail, NoBody))
    IN IF v.status # 200 THEN reply(v.status, v.detail)
       ELSE IF events[slug].password = NULL \/ events[slug].password = ""
       THEN reply(200, "No password required for this event.")
       ELSE IF verify_event_password(events[slug], password)
       THEN reply(200, "Password verified successfully.")
       ELSE reply(401, "Incorrect password.")

\* A visitor's photo that is public from the start.
new_photo_approved(photo_id, slug, file, caption) ==
    StoredPhoto(photo_id, slug, file.filename, caption, Some(TRUE), NULL, NoText)

\* PhotoModel(...): a visitor's photo starts unapproved, attributed to nobody.
new_photo(photo_id, slug, file, caption) ==
    StoredPhoto(photo_id, slug, file.filename, caption, Some(FALSE), NULL, NoText)

\* file: [content_type, size, filename]; password NULL when the form omits it.
upload_public_photo(slug, file, caption, password) ==
    LET v == get_event_by_slug(slug)
        req == [file |-> file, caption |-> caption, password |-> password]
        photo_id == next_photo
        fail(status, detail) ==
            Same(Response("upload_public_photo", Anonymous, slug, 0, req,
                          status, detail, NoBody))
    IN IF v.status # 200 THEN fail(v.status, v.detail)
       ELSE IF /\ events[slug].password # NULL /\ events[slug].password # ""
               /\ (password = NULL \/ password = "")
       THEN fail(401, "Password required to upload photos to this event.")
       ELSE IF /\ events[slug].password # NULL /\ events[slug].password # ""
               /\ ~verify_event_password(events[slug], password)
       THEN fail(401, "Incorrect password.")
       ELSE IF ~IsImage(file.content_type) THEN fail(400, "File must be an image.")
       ELSE IF file.size > max_size
       THEN fail(400, "File size exceeds maximum allowed size (10MB).")
       ELSE IF file.size = 0 THEN fail(400, "File is empty.")
       ELSE [Same(Response("upload_public_photo", Anonymous, slug, photo_id, req,
                           200, "ok",
                           PhotoResponse(photo_id, new_photo(photo_id, slug, file, caption))))
             EXCEPT !.photos = photos @@
                        (photo_id :> new_photo(photo_id, slug, file, caption)),
                    !.next_photo = next_photo + 1]

----------------------------------------------------------------------------
(* The requests: every endpoint over the input ranges P of a specification *)

\* The requests in flight that committed a moderation and owe its e-mail.
Notifications == {job \in inflight : job.kind \in {"approved", "rejected"}}

\* Authorization headers that carry no usable credential: none, a lone word,
\* another scheme, three words, and tokens the provider rejects.
Headers ==
    {<<>>, <<"Bearer">>, <<"Basic", "tok_u1">>, <<"Bearer", "tok_u1", "x">>,
     <<"bearer", "invalid">>, <<"Bearer", "expired">>, <<"Bearer", "revoked">>}

Uids(P) == {s.uid : s \in P.subjects}
EventRange(P) == 1..Max(P.max_events, next_event - 1)
PhotoRange(P) == 1..P.max_photos

NextOver(P) ==
    \/ \E user \in P.subjects, event_data \in P.event_creates :
          /\ next_event <= P.max_events
          /\ Perform(create_event(user, event_data))
    \/ \E user \in P.subjects, page \in P.pages, page_size \in P.page_sizes :
          Perform(list_events(user, page, page_size))
    \/ \E uid \in Uids(P), event_id \in EventRange(P) :
          Perform(get_event_detail(uid, event_id))
    \/ \E authorization \in Headers, event_id \in EventRange(P) :
          Perform(Depends(authorization,
                          delete_event(get_current_user(authorization).user.uid,
                                       event_id)))
    \/ \E uid \in Uids(P), event_id \in EventRange(P), event_data \in P.event_updates :
          Perform(update_event_metadata(uid, event_id, event_data))
    \/ \E uid \in Uids(P), event_id \in EventRange(P) :
          Perform(delete_event(uid, event_id))
    \/ \E uid \in Uids(P), event_id \in EventRange(P), file \in P.cover_files,
          upload_ok \in BOOLEAN :
          Perform(upload_event_cover_image(uid, event_id, file, upload_ok))
    \/ \E uid \in Uids(P), event_id \in EventRange(P) :
          Perform(get_event_qr_code(uid, event_id))
    \/ \E uid \in Uids(P), event_id \in EventRange(P) :
          Perform(trigger_event_photos_zip_export(uid, event_id))
    \/ \E uid \in Uids(P), event_ids \in SUBSET EventRange(P), action \in P.bulk_actions :
          /\ event_ids # {}
          /\ Perform(bulk_actions_on_events(uid, event_ids, action))
    \/ \E uid \in Uids(P), event_id \in EventRange(P), page \in P.pages,
          page_size \in P.page_sizes :
          Perform(get_event_photos(uid, event_id, page, page_size))
    \/ \E uid \in Uids(P), event_id \in EventRange(P), photo_id \in PhotoRange(P),
          request \in P.photo_updates :
          /\ Cardinality(inflight) < P.max_inflight
          /\ Perform(update_photo(uid, event_id, photo_id, request))
    \/ \E job \in Notifications, mail_ok \in BOOLEAN :
          Perform(update_photo_notify(job, mail_ok))
    \/ \E uid \in Uids(P), event_id \in EventRange(P), photo_id \in PhotoRange(P),
          delete_ok \in BOOLEAN :
          Perform(delete_photo(uid, event_id, photo_id, delete_ok))
    \/ \E uid \in Uids(P), event_id \in EventRange(P),
          photo_ids \in SUBSET PhotoRange(P), failing \in SUBSET PhotoRange(P) :
          /\ photo_ids # {}
          /\ failing \in {{}, photo_ids}
          /\ Perform(bulk_delete_photos(uid, event_id, photo_ids, failing))
    \/ \E uid \in Uids(P), event_id \in EventRange(P) :
          Perform(bulk_download_photos(uid, event_id, PhotoRange(P)))
    \/ \E slug \in EventRange(P) :
          Perform(get_public_event_info(slug))
    \/ \E slug \in EventRange(P), page \in P.pages, page_size \in P.page_sizes :
          Perform(get_public_event_photos(slug, page, page_size))
    \/ \E slug \in EventRange(P), password \in P.passwords \ {NULL} :
          Perform(verify_event_password_endpoint(slug, password))
    \/ \E slug \in EventRange(P), file \in P.photo_files, caption \in P.captions,
          password \in P.passwords :
          /\ next_photo <= P.max_photos
          /\ Perform(upload_public_photo(slug, file, caption, password))

----------------------------------------------------------------------------
(* Input values shared by the specifications *)

Png == <<"image", "png">>
Plain == <<"text", "plain">>
EmptyTable == [x \in {} |-> x]

AllUids == {"u1", "u2", "u3"}
Passwords == {NULL, "", "pw1", "pw2", "guess"}
PhotoFiles ==
    {[content_type |-> ct, size |-> size, filename |-> Jpg] :
        ct \in {Png, Plain, NoText}, size \in {0, 1, max_size, max_size + 1}}
GoodPhoto == [content_type |-> Png, size |-> 1, filename |-> Jpg]
PhotoUpdates ==
    {[approved |-> Some(TRUE)], [approved |-> Some(FALSE)], [approved |-> NoBool],
     [caption |-> "nice"], [caption |-> "nice", approved |-> Some(TRUE)],
     [caption |-> NULL, approved |-> Some(FALSE)]}
EventUpdates ==
    {[is_active |-> FALSE], [is_active |-> TRUE], [is_archived |-> TRUE],
     [is_archived |-> FALSE], [password |-> NULL], [password |-> "pw2"],
     [name |-> "renamed"], [name |-> "renamed", is_archived |-> TRUE]}
CoverFiles ==
    {[content_type |-> ct, size |-> size] : ct \in {Png, Plain, NoText}, size \in {0, 1}}

----------------------------------------------------------------------------
(* Spec: ownership.  Two hosts, from the empty store. *)

Access ==
    [subjects |-> {Ann, Bob},
     max_events |-> MaxEvents,
     max_photos |-> MaxPhotos,
     max_inflight |-> 1,
     event_creates |-> {[name |-> "party", password |-> NULL, cover_image_url |-> NULL]},
     event_updates |-> {[is_active |-> FALSE], [is_active |-> TRUE]},
     cover_files |-> {[content_type |-> Plain, size |-> 1]},
     bulk_actions |-> {"deactivate", "activate", "purge"},
     photo_updates |-> {[approved |-> Some(TRUE)], [approved |-> Some(FALSE)]},
     pages |-> {1},
     page_sizes |-> {1},
     passwords |-> {NULL, "pw1"},
     captions |-> {NULL},
     photo_files |-> {GoodPhoto}]

\* Stores that earlier requests, and the writers of attributed photos, left.
Guest == "g@x"
Party == [name |-> "party", password |-> NULL, cover_image_url |-> NULL]

\* The id sequences stand after the largest id handed out.
NextId(table) ==
    LET used == {0} \cup DOMAIN table
    IN (CHOOSE m \in used : \A x \in used : m >= x) + 1

Store(u, e, p) ==
    [users |-> u, events |-> e, photos |-> p,
     next_event |-> NextId(e), next_photo |-> NextId(p)]

EmptyStore == Store(EmptyTable, EmptyTable, EmptyTable)

GuestPhotoStore ==
    Store("u1" :> StoredUser(Ann),
          1 :> NewEvent("u1", Party),
          1 :> StoredPhoto(1, 1, Jpg, NULL, Some(FALSE), Guest, NoText))

InitFrom(stores) ==
    /\ \E s \in stores :
          /\ users = s.users
          /\ events = s.events
          /\ photos = s.photos
          /\ next_event = s.next_event
          /\ next_photo = s.next_photo
    /\ inflight = {}

Init == InitFrom({EmptyStore, GuestPhotoStore})

Next == NextOver(Access)

Spec == Init /\ [][Next]_vars

----------------------------------------------------------------------------
(* Every request that can be made in a state, as the outcome of its handler *)

AllSubjects == {Ann, Bob, AnnRotated}
EventCreates ==
    {Party, [Party EXCEPT !.password = "pw1"], [Party EXCEPT !.cover_image_url = "c"]}
EventIds == 1..next_event
PhotoIds == 1..next_photo
Pages == 1..2
PageSizes == 1..2

\* Ok holds of the outcome of every request user uid can make with a valid token.
AllAuthenticated(uid, Ok(_)) ==
    LET mine == {s \in AllSubjects : s.uid = uid} IN
    /\ \A user \in mine, d \in EventCreates : Ok(create_event(user, d))
    /\ \A user \in mine, page \in Pages, size \in PageSizes :
          Ok(list_events(user, page, size))
    /\ \A e \in EventIds :
          /\ Ok(get_event_detail(uid, e))
          /\ \A d \in EventUpdates : Ok(update_event_metadata(uid, e, d))
          /\ Ok(delete_event(uid, e))
          /\ \A f \in CoverFiles, ok \in BOOLEAN :
                Ok(upload_event_cover_image(uid, e, f, ok))
          /\ Ok(get_event_qr_code(uid, e))
          /\ Ok(trigger_event_photos_zip_export(uid, e))
          /\ \A page \in Pages, size \in PageSizes :
                Ok(get_event_photos(uid, e, page, size))
          /\ \A p \in PhotoIds :
                /\ \A r \in PhotoUpdates : Ok(update_photo(uid, e, p, r))
                /\ \A ok \in BOOLEAN : Ok(delete_photo(uid, e, p, ok))
          /\ \A ids \in SUBSET PhotoIds :
                /\ \A failing \in {{}, ids} : Ok(bulk_delete_photos(uid, e, ids, failing))
                /\ Ok(bulk_download_photos(uid, e, ids))
    /\ \A ids \in SUBSET EventIds, a \in BulkEventActions \cup {"purge"} :
          Ok(bulk_actions_on_events(uid, ids, a))

\* Ok holds of the outcome of every request a visitor can make of slug, no token.
AllPublicOn(slug, Ok(_)) ==
    /\ Ok(get_public_event_info(slug))
    /\ \A page \in Pages, size \in PageSizes :
          Ok(get_public_event_photos(slug, page, size))
    /\ \A pw \in Passwords :
          /\ pw # NULL => Ok(verify_event_password_endpoint(slug, pw))
          /\ \A f \in PhotoFiles, c \in {NULL, "hi"} :
                Ok(upload_public_photo(slug, f, c, pw))

AllPublic(Ok(_)) == \A slug \in EventIds : AllPublicOn(slug, Ok)

\* Ok holds of every answer still owed by a request that committed and has an
\* e-mail to send.
AllNotify(Ok(_)) ==
    \A job \in Notifications, ok \in BOOLEAN : Ok(update_photo_notify(job, ok))

PhotosOfIn(table, event_id) == {p \in DOMAIN table : table[p].event_id = event_id}

\* out leaves event e and the photos of e as they are.
Untouched(e, out) ==
    /\ e \in DOMAIN out.events
    /\ out.events[e] = events[e]
    /\ PhotosOfIn(out.photos, e) = PhotosOf(e)
    /\ \A p \in PhotosOf(e) : out.photos[p] = photos[p]

\* out leaves event e as it is and at most adds one new, unapproved photo to it,
\* which it does only when e is active and not archived.
AtMostAddsUnapproved(e, out) ==
    LET added == PhotosOfIn(out.photos, e) \ PhotosOf(e) IN
    /\ e \in DOMAIN out.events
    /\ out.events[e] = events[e]
    /\ PhotosOf(e) \subseteq PhotosOfIn(out.photos, e)
    /\ \A p \in PhotosOf(e) : out.photos[p] = photos[p]
    /\ Cardinality(added) <= 1
    /\ \A p \in added :
          /\ p \notin DOMAIN photos
          /\ out.photos[p].approved = Some(FALSE)
          /\ events[e].is_active /\ ~events[e].is_archived

----------------------------------------------------------------------------
(* Claims *)

\* C1: an event and its photos are left as they are by every request of an
\* authenticated user who is not the event's host (get, update, delete, cover
\* upload, QR, export, bulk, and every photo endpoint), by every pending
\* notification, and by every visitor request except a public upload, which
\* only adds one new unapproved photo to an active, non-archived event.
C1_OnlyTheHostChanges ==
    LET OthersUntouched(uid, out) ==
            \A e \in DOMAIN events : events[e].host_id # uid => Untouched(e, out)
        AllUntouched(out) == \A e \in DOMAIN events : Untouched(e, out)
        OnlyAdds(out) == \A e \in DOMAIN events : AtMostAddsUnapproved(e, out)
    IN /\ \A uid \in AllUids :
             LET HostsOnly(out) == OthersUntouched(uid, out)
             IN AllAuthenticated(uid, HostsOnly)
       /\ AllNotify(AllUntouched)
       /\ AllPublic(OnlyAdds)

\* An event of u1 that its host has changed, holding a publicly uploaded photo,
\* which u2 (a known user) asks to delete and is refused.
C1_Witness ==
    \E e \in DOMAIN events :
        /\ events[e].host_id = "u1"
        /\ events[e].updated_at = T_UPDATED
        /\ "u2" \in DOMAIN users
        /\ \E p \in PhotosOf(e) : photos[p].uploaded_by = NULL
        /\ delete_event("u2", e).resp.status = 403
        /\ delete_event("u1", e).resp.status = 200
        /\ e \notin DOMAIN delete_event("u1", e).events

\* C2: the ownership check answers 404 when no event has the id, 403 when the
\* event is there and hosted by someone else, and passes when the caller is
\* the host; an absent id is 404 for every caller (existence is looked at
\* first); an endpoint that does nothing but this check and a read leaves
\* the store as it is.
C2_OwnershipCheck ==
    \A event_id \in EventIds, uid \in AllUids :
        LET v == verify_event_ownership(event_id, uid)
            out == get_event_detail(uid, event_id)
        IN /\ event_id \notin DOMAIN events => v.status = 404
           /\ event_id \in DOMAIN events /\ events[event_id].host_id # uid
                 => v.status = 403
           /\ event_id \in DOMAIN events /\ events[event_id].host_id = uid
                 => v.status = 200 /\ out.resp.body.id = event_id
           /\ out.resp.status = v.status
           /\ out = Same(out.resp)

\* All three answers at once: an id no event has, and an event of u1 asked for
\* by u1 and by u2.
C2_Witness ==
    \E gone \in EventIds, e \in DOMAIN events :
        /\ gone \notin DOMAIN events
        /\ events[e].host_id = "u1"
        /\ "u2" \in DOMAIN users
        /\ get_event_detail("u2", gone).resp.status = 404
        /\ get_event_detail("u2", e).resp.status = 403
        /\ get_event_detail("u1", e).resp.status = 200

----------------------------------------------------------------------------
(* SpecVisibility: one host who hides, archives and password-protects events *)

Visibility ==
    [subjects |-> {Ann},
     max_events |-> MaxEvents,
     max_photos |-> MaxPhotos,
     max_inflight |-> 1,
     event_creates |-> {Party, [Party EXCEPT !.password = "pw1"]},
     event_updates |-> {[is_active |-> FALSE], [is_active |-> TRUE],
                        [is_archived |-> TRUE], [is_archived |-> FALSE]},
     cover_files |-> {[content_type |-> Plain, size |-> 1]},
     bulk_actions |-> {"archive"},
     photo_updates |-> {[approved |-> Some(TRUE)]},
     pages |-> {1},
     page_sizes |-> {1},
     passwords |-> {NULL, "pw1", "guess"},
     captions |-> {NULL},
     photo_files |-> {GoodPhoto}]

InitVisibility == InitFrom({EmptyStore, GuestPhotoStore})

NextVisibility == NextOver(Visibility)

SpecVisibility == InitVisibility /\ [][NextVisibility]_vars

\* The event is hidden from visitors.
Hidden(event) == ~event.is_active \/ event.is_archived

\* C3: for an event that is inactive or archived, every visitor request (event
\* info, photo listing, password verification, photo upload) is answered 404
\* whatever password comes with it and whether or not the event has one, and
\* the store, its photos included, stays as it is.
C3_HiddenEventsAre404 ==
    \A slug \in DOMAIN events :
        Hidden(events[slug]) =>
            LET NotFound(out) ==
                    /\ out.resp.status = 404
                    /\ out = Same(out.resp)
            IN AllPublicOn(slug, NotFound)

\* A password-protected event holding an approved photo has been hidden, and an
\* upload that carries the right password is answered 404.
C3_Witness ==
    \E slug \in DOMAIN events :
        /\ events[slug].password = "pw1"
        /\ Hidden(events[slug])
        /\ ApprovedPhotosOf(slug) # {}
        /\ upload_public_photo(slug, GoodPhoto, NULL, "pw1").resp.status = 404
        /\ get_public_event_photos(slug, 1, 1).resp.status = 404

\* C6: the public view of a visible event has no password and no host_id field;
\* has_password is a boolean telling whether a password is stored; photo_count
\* is the number of the event's photos with approved = true; and the view of
\* the same event under any other set password, or any other host, is equal.
C6_PublicProjection ==
    \A slug \in DOMAIN events :
        ~Hidden(events[slug]) =>
            LET event == events[slug]
                approved == {p \in DOMAIN photos :
                                photos[p].event_id = slug /\ photos[p].approved = Some(TRUE)}
                body == get_public_event_info(slug).resp.body
            IN /\ "password" \notin DOMAIN body
               /\ "host_id" \notin DOMAIN body
               /\ body.has_password \in BOOLEAN
               /\ body.has_password = (event.password # NULL)
               /\ body.photo_count = Cardinality(approved)
               /\ \A pw \in Passwords \ {NULL} :
                     event.password # NULL =>
                        PublicEventResponse(slug, [event EXCEPT !.password = pw],
                                            Cardinality(approved)) = body
               /\ \A host \in AllUids :
                     PublicEventResponse(slug, [event EXCEPT !.host_id = host],
                                         Cardinality(approved)) = body

\* A visible event with a password, one approved photo and one that is not.
C6_Witness ==
    \E slug \in DOMAIN events :
        /\ ~Hidden(events[slug])
        /\ events[slug].password = "pw1"
        /\ Cardinality(PhotosOf(slug)) = 2
        /\ get_public_event_info(slug).resp.body.has_password = TRUE
        /\ get_public_event_info(slug).resp.body.photo_count = 1

----------------------------------------------------------------------------
(* SpecModeration: a host moderating photos of guests, of visitors and their own *)

HostPhotoStore ==
    Store("u1" :> StoredUser(Ann),
          1 :> NewEvent("u1", Party),
          1 :> StoredPhoto(1, 1, Jpg, NULL, Some(FALSE), "u1", NoText))

Moderation ==
    [subjects |-> {Ann},
     max_events |-> MaxEvents,
     max_photos |-> MaxPhotos,
     max_inflight |-> 1,
     event_creates |-> {Party},
     event_updates |-> {[name |-> "renamed"]},
     cover_files |-> {[content_type |-> Plain, size |-> 1]},
     bulk_actions |-> {"purge"},
     photo_updates |-> {[approved |-> Some(TRUE)], [approved |-> Some(FALSE)],
                        [approved |-> NoBool]},
     pages |-> {1},
     page_sizes |-> {1},
     passwords |-> {NULL, "pw1"},
     captions |-> {NULL},
     photo_files |-> {GoodPhoto}]

InitModeration == InitFrom({EmptyStore, GuestPhotoStore, HostPhotoStore})

NextModeration == NextOver(Moderation)

SpecModeration == InitModeration /\ [][NextModeration]_vars

\* C4: for every event, page and page size, the public listing holds only
\* photos of that event with approved = true, and its total is the number of
\* those; a photo whose approved is false (or null) is neither in it nor counted.
C4_PublicListingApprovedOnly ==
    \A slug \in DOMAIN events, page \in Pages, size \in PageSizes :
        LET out == get_public_event_photos(slug, page, size)
            approved == {p \in DOMAIN photos :
                            photos[p].event_id = slug /\ photos[p].approved = Some(TRUE)}
        IN /\ ~Hidden(events[slug]) => out.resp.status = 200
           /\ out.resp.status = 200 =>
                 /\ out.resp.body.total = Cardinality(approved)
                 /\ \A i \in DOMAIN out.resp.body.photos :
                       /\ out.resp.body.photos[i].id \in approved
                       /\ out.resp.body.photos[i].approved = Some(TRUE)

\* An event with an approved and an unapproved photo, listed with total 1.
C4_Witness ==
    \E slug \in DOMAIN events :
        /\ \E p \in PhotosOf(slug) : photos[p].approved = Some(TRUE)
        /\ \E p \in PhotosOf(slug) : photos[p].approved = Some(FALSE)
        /\ get_public_event_photos(slug, 1, 2).resp.body.total = 1
        /\ Len(get_public_event_photos(slug, 1, 2).resp.body.photos) = 1

\* Photo p is in the public listing of its event (all of it on one page).
Listed(p) ==
    LET out == get_public_event_photos(photos[p].event_id, 1, next_photo)
    IN /\ out.resp.status = 200
       /\ \E i \in DOMAIN out.resp.body.photos : out.resp.body.photos[i].id = p

\* The photo_count of the public view of event e; 0 when there is no such view.
PublicCount(e) ==
    LET out == get_public_event_info(e)
    IN IF out.resp.status = 200 THEN out.resp.body.photo_count ELSE 0

\* What a step that writes to the events or photos table does to the listing.
C5_Step ==
    photos' # photos \/ events' # events =>
    \A p \in PhotoIds, e \in EventIds :
        p \in DOMAIN photos' /\ photos'[p].event_id = e =>
        /\ p \notin DOMAIN photos =>
              /\ ~Listed(p)'
              /\ PublicCount(e)' = PublicCount(e)
        /\ p \in DOMAIN photos /\ ~Listed(p) /\ Listed(p)' =>
              /\ photos'[p].approved = Some(TRUE)
              /\ photos[p].approved # Some(TRUE)
              /\ PublicCount(e)' = PublicCount(e) + 1
        /\ p \in DOMAIN photos /\ photos[p].approved = Some(TRUE)
              /\ photos'[p].approved # Some(TRUE) =>
              /\ Listed(p)
              /\ ~Listed(p)'
              /\ PublicCount(e)' = PublicCount(e) - 1

\* C5: the step that creates a photo leaves it out of the public listing and
\* leaves the public photo_count as it was; a photo enters the listing, and
\* the count goes up by one, only in a step that sets its approved to true;
\* a step that takes approved from true to anything else takes the photo out
\* of the listing and the count down by one.
C5_ListedOnlyWhileApproved == [][C5_Step]_vars

\* A visitor's photo (attributed to nobody) that the host has approved and that
\* is now listed and counted.
C5_Witness ==
    \E p \in DOMAIN photos :
        /\ photos[p].uploaded_by = NULL
        /\ photos[p].approved = Some(TRUE)
        /\ Listed(p)
        /\ PublicCount(photos[p].event_id) = 1

\* The three conditions of a notification, for the host's request to write
\* update_data to photo p of event e.
Flips(e, p, update_data) ==
    /\ "approved" \in DOMAIN update_data
    /\ update_data.approved # photos[p].approved
    /\ photos[p].uploaded_by # NULL
    /\ photos[p].uploaded_by # events[e].host_id

\* C7: when the host's update carries approved, changes the stored value, and
\* the photo's uploaded_by is non-null and not the host's id, the request
\* commits with exactly one notification owed, which is then attempted exactly
\* once, to the uploader: the approved variant for true, the rejected variant
\* for false.
C7_ExactlyOneNotification ==
    \A e \in DOMAIN events, p \in DOMAIN photos, update_data \in PhotoUpdates :
        photos[p].event_id = e /\ Flips(e, p, update_data) =>
            LET out == update_photo(events[e].host_id, e, p, update_data)
                owed == out.inflight \ inflight
            IN /\ Cardinality(owed) = 1
               /\ \A job \in owed, mail_ok \in BOOLEAN :
                     LET sent == update_photo_notify(job, mail_ok).resp.notif
                     IN /\ Len(sent) = 1
                        /\ sent[1].to = photos[p].uploaded_by
                        /\ update_data.approved = Some(TRUE) => sent[1].kind = "approved"
                        /\ update_data.approved = Some(FALSE) => sent[1].kind = "rejected"

\* The host has approved a guest's photo and the e-mail for it is owed.
C7_Witness ==
    \E job \in inflight, p \in DOMAIN photos :
        /\ job.done.photo = p
        /\ photos[p].uploaded_by = Guest
        /\ photos[p].approved = Some(TRUE)
        /\ job.kind = "approved"
        /\ job.to = Guest

\* C8: a photo update request leaves no notification owed and sends none
\* unless it is accepted and carries approved, changes the stored value, and
\* the photo's uploaded_by is non-null and not the host's id: none for a
\* payload without approved, none for the current value, none for a photo
\* attributed to nobody or to the host, none for a refused request.
C8_NoOtherNotification ==
    \A uid \in AllUids, e \in EventIds, p \in PhotoIds, update_data \in PhotoUpdates :
        LET out == update_photo(uid, e, p, update_data)
            due == /\ e \in DOMAIN events /\ events[e].host_id = uid
                   /\ PhotoInEvent(p, e)
                   /\ Flips(e, p, update_data)
        IN ~due =>
              /\ out.inflight = inflight
              /\ out.resp # NoResponse
              /\ out.resp.notif = <<>>

\* The host has changed the approval of a visitor's photo and of their own,
\* or repeats the value a guest's approved photo has, and nothing is owed.
C8_Witness ==
    /\ inflight = {}
    /\ \E p \in DOMAIN photos :
          LET e == photos[p].event_id IN
          /\ e \in DOMAIN events
          /\ photos[p].approved = Some(TRUE)
          /\ \/ photos[p].uploaded_by = NULL
             \/ photos[p].uploaded_by = events[e].host_id
          /\ update_photo(events[e].host_id, e, p, [approved |-> Some(FALSE)]).inflight = {}
          /\ update_photo(events[e].host_id, e, p, [caption |-> "nice"]).resp.status = 200

\* C9: a request that owes a notification has committed its values and has not
\* answered yet; when the notification is attempted and fails, the answer is
\* the one a successful send gives (200 with the committed row), and the
\* store keeps the committed values.
C9_CommitBeforeNotification ==
    /\ \A e \in DOMAIN events, p \in DOMAIN photos, update_data \in PhotoUpdates :
          LET out == update_photo(events[e].host_id, e, p, update_data) IN
          photos[p].event_id = e /\ out.inflight # inflight =>
              /\ out.resp = NoResponse
              /\ out.photos[p] = ApplyPhotoUpdate(photos[p], update_data)
              /\ \A job \in out.inflight \ inflight :
                    /\ update_photo_notify(job, FALSE).resp.status
                          = update_photo_notify(job, TRUE).resp.status
                    /\ update_data.approved # NoBool =>
                          update_photo_notify(job, FALSE).resp.status = 200
    /\ \A job \in inflight :
          LET failed == update_photo_notify(job, FALSE)
          IN /\ failed.resp.status = update_photo_notify(job, TRUE).resp.status
             /\ failed.resp.body = update_photo_notify(job, TRUE).resp.body
             /\ failed.photos = photos
             /\ failed.events = events
             /\ job.done.req.approved # NoBool =>
                   /\ failed.resp.status = 200
                   /\ failed.resp.body.approved = job.done.req.approved

\* The rejection of a guest's photo is committed, its e-mail is owed, and the
\* request ends 200 when the send fails.
C9_Witness ==
    \E job \in inflight :
        /\ job.kind = "rejected"
        /\ job.done.photo \in DOMAIN photos
        /\ photos[job.done.photo].approved = Some(FALSE)
        /\ update_photo_notify(job, FALSE).resp.status = 200
        /\ update_photo_notify(job, FALSE).resp.notif[1].sent = FALSE
        /\ update_photo_notify(job, FALSE).photos = photos

----------------------------------------------------------------------------
(* SpecQuota: a host with stored bytes uploading covers of sizes around the ceiling *)

Covered(event, file_size) ==
    [event EXCEPT !.cover_image_url = "cdn_url",
                  !.cover_thumbnail_url = "cdn_thumb",
                  !.cover_image_file_size = Some(ToText(file_size)),
                  !.updated_at = T_UPDATED]

\* The host's own photo of 500 MiB, and a guest's photo that is not the host's.
HeavyPhotos ==
    (1 :> StoredPhoto(1, 1, Jpg, NULL, Some(TRUE), "u1", Some(ToText(500 * MiB))))
    @@ (2 :> StoredPhoto(2, 1, Jpg, NULL, Some(FALSE), Guest, Some(ToText(50 * MiB))))

HeavyStore ==
    Store("u1" :> StoredUser(Ann), 1 :> NewEvent("u1", Party), HeavyPhotos)

HeavyCoverStore ==
    Store("u1" :> StoredUser(Ann),
          1 :> Covered(NewEvent("u1", Party), 600 * MiB),
          HeavyPhotos)

QuotaCoverFiles ==
    {[content_type |-> Png, size |-> size] :
        size \in {0, 50 * MiB, 400 * MiB, 524 * MiB, 524 * MiB + 1, 600 * MiB}}

Quota ==
    [subjects |-> {Ann},
     max_events |-> MaxEvents,
     max_photos |-> MaxPhotos,
     max_inflight |-> 1,
     event_creates |-> {Party},
     event_updates |-> {[name |-> "renamed"]},
     cover_files |-> QuotaCoverFiles,
     bulk_actions |-> {"purge"},
     photo_updates |-> {[approved |-> Some(TRUE)]},
     pages |-> {1},
     page_sizes |-> {1},
     passwords |-> {NULL, "pw1"},
     captions |-> {NULL},
     photo_files |-> {GoodPhoto}]

InitQuota == InitFrom({EmptyStore, HeavyStore, HeavyCoverStore})

NextQuota == NextOver(Quota)

SpecQuota == InitQuota /\ [][NextQuota]_vars

\* C10: the host's upload of an image as cover is answered 413 exactly when
\* the host's usage plus the size of the file is more than 1,073,741,824
\* bytes; then the store, the three cover fields of the event included, is as
\* before and the asset store is not called; at or below the ceiling the
\* asset store is called, and when it accepts the file the cover is stored
\* with the size of the file.
C10_QuotaGate ==
    \A e \in DOMAIN events, file \in QuotaCoverFiles, upload_ok \in BOOLEAN :
        LET uid == events[e].host_id
            usage == get_user_upload_size(uid)
            out == upload_event_cover_image(uid, e, file, upload_ok)
        IN usage.ok =>
              /\ out.resp.status = 413 <=> usage.size + file.size > 1073741824
              /\ out.resp.status = 413 =>
                    /\ out = Same(out.resp)
                    /\ out.events[e].cover_image_url = events[e].cover_image_url
                    /\ out.events[e].cover_thumbnail_url = events[e].cover_thumbnail_url
                    /\ out.events[e].cover_image_file_size = events[e].cover_image_file_size
                    /\ out.resp.cdn = <<>>
              /\ usage.size + file.size <= 1073741824 =>
                    /\ Len(out.resp.cdn) = 1
                    /\ out.resp.status = IF upload_ok THEN 200 ELSE 500
                    /\ upload_ok =>
                          out.events[e].cover_image_file_size = Some(ToText(file.size))

\* The host holds a 500 MiB photo and a cover of 524 MiB that the gate let in:
\* exactly 1 GiB.  An empty file is still accepted, 50 MiB are refused.
C10_Witness ==
    \E e \in DOMAIN events :
        /\ events[e].cover_image_file_size = Some(ToText(524 * MiB))
        /\ get_user_upload_size(events[e].host_id).size = 1073741824
        /\ upload_event_cover_image(events[e].host_id, e,
              [content_type |-> Png, size |-> 0], TRUE).resp.status = 200
        /\ upload_event_cover_image(events[e].host_id, e,
              [content_type |-> Png, size |-> 50 * MiB], TRUE).resp.status = 413

----------------------------------------------------------------------------
(* SpecUsage: stores whose size columns hold the texts a text column can hold *)

WithAvatar(user, text) == [user EXCEPT !.avatar_file_size = Some(text)]

\* Sizes that are integer text: a photo of 7 bytes, a cover of 30, an avatar of 12.
CleanSizesStore ==
    Store("u1" :> WithAvatar(StoredUser(Ann), ToText(12)),
          1 :> Covered(NewEvent("u1", Party), 30),
          (1 :> StoredPhoto(1, 1, Jpg, NULL, Some(TRUE), "u1", Some(ToText(7))))
          @@ (2 :> StoredPhoto(2, 1, Jpg, NULL, Some(FALSE), Guest, Some(ToText(5)))))

\* An avatar size that is the text of a negative integer.
NegativeAvatarStore ==
    Store("u1" :> WithAvatar(StoredUser(Ann), <<"-", "5">>),
          1 :> NewEvent("u1", Party),
          1 :> StoredPhoto(1, 1, Jpg, NULL, Some(FALSE), Guest, NoText))

\* An avatar size and a photo size that are no integer.
UnparseableSizesStore ==
    Store("u1" :> WithAvatar(StoredUser(Ann), <<"1", "k">>),
          1 :> NewEvent("u1", Party),
          1 :> StoredPhoto(1, 1, Jpg, NULL, Some(FALSE), "u1", Some(<<"1", "k">>)))

Usage ==
    [subjects |-> {Ann},
     max_events |-> MaxEvents,
     max_photos |-> MaxPhotos,
     max_inflight |-> 1,
     event_creates |-> {Party},
     event_updates |-> {[name |-> "renamed"]},
     cover_files |-> {[content_type |-> Png, size |-> 3]},
     bulk_actions |-> {"purge"},
     photo_updates |-> {[approved |-> Some(TRUE)]},
     pages |-> {1},
     page_sizes |-> {1},
     passwords |-> {NULL, "pw1"},
     captions |-> {NULL},
     photo_files |-> {GoodPhoto}]

InitUsage ==
    InitFrom({EmptyStore, CleanSizesStore, NegativeAvatarStore, UnparseableSizesStore})

NextUsage == NextOver(Usage)

SpecUsage == InitUsage /\ [][NextUsage]_vars

\* What a size column contributes: its value when it holds the text of a
\* non-negative integer, zero when it is absent or holds anything else.
Contribution(size) ==
    IF size # NoText /\ Len(size[1]) > 0 /\ AllDigits(size[1])
    THEN DigitsValue(size[1]) ELSE 0

\* C11: for every user id, get_user_upload_size answers (never raises), with
\* the sum of the sizes of the photos attributed to the user, of the covers of
\* the events the user hosts and of the user's avatar, each absent or
\* unparseable size counting zero, and the answer is not negative.
C11_UsageIsTheSumAndNeverRaises ==
    \A user_id \in AllUids :
        LET mine == {p \in DOMAIN photos : photos[p].uploaded_by = user_id}
            hosted == {e \in DOMAIN events : events[e].host_id = user_id}
            usage == get_user_upload_size(user_id)
        IN /\ usage.ok
           /\ usage.size >= 0
           /\ usage.size =
                 SumOver(mine, [p \in mine |-> Contribution(photos[p].file_size)])
                 + SumOver(hosted,
                           [e \in hosted |-> Contribution(events[e].cover_image_file_size)])
                 + (IF user_id \in DOMAIN users
                    THEN Contribution(users[user_id].avatar_file_size) ELSE 0)

----------------------------------------------------------------------------
(* SpecBulk: a host with two events next to another host's event *)

\* Events 1 and 2 of u1, event 3 of u2, a guest's photo on event 1.
ThreeEventsStore ==
    Store(("u1" :> StoredUser(Ann)) @@ ("u2" :> StoredUser(Bob)),
          (1 :> NewEvent("u1", Party)) @@ (2 :> NewEvent("u1", Party))
          @@ (3 :> NewEvent("u2", Party)),
          1 :> StoredPhoto(1, 1, Jpg, NULL, Some(FALSE), Guest, NoText))

Bulk ==
    [subjects |-> {Ann},
     max_events |-> MaxEvents,
     max_photos |-> MaxPhotos - 1,
     max_inflight |-> 1,
     event_creates |-> {Party},
     event_updates |-> {[name |-> "renamed"]},
     cover_files |-> {[content_type |-> Plain, size |-> 1]},
     bulk_actions |-> BulkEventActions \cup {"purge"},
     photo_updates |-> {[approved |-> Some(TRUE)]},
     pages |-> {1},
     page_sizes |-> {1},
     passwords |-> {NULL, "pw1"},
     captions |-> {NULL},
     photo_files |-> {GoodPhoto}]

InitBulk == InitFrom({EmptyStore, ThreeEventsStore})

NextBulk == NextOver(Bulk)

SpecBulk == InitBulk /\ [][NextBulk]_vars

\* The flag a bulk action sets on an event.
Flagged(event, action) ==
    IF action = "archive" THEN event.is_archived
    ELSE IF action = "activate" THEN event.is_active
    ELSE ~event.is_active

\* The columns a bulk action may write: its flag and the update time.
SameButFlags(before, after) ==
    [after EXCEPT !.is_archived = before.is_archived, !.is_active = before.is_active,
                  !.updated_at = before.updated_at] = before

\* C12: a bulk archive, activate or deactivate answers 200 with the number of
\* listed events the caller hosts, sets the action's flag on exactly those
\* events (nothing else of them but the update time), and leaves every other
\* event, the listed ids that exist for another host or not at all included,
\* and every photo and user as they are.
C12_BulkActsOnOwnListedEvents ==
    \A uid \in AllUids, event_ids \in SUBSET EventIds, action \in BulkEventActions :
        LET out == bulk_actions_on_events(uid, event_ids, action)
            subset == {e \in DOMAIN events : e \in event_ids /\ events[e].host_id = uid}
        IN /\ out.resp.status = 200
           /\ out.resp.body.count = Cardinality(subset)
           /\ DOMAIN out.events = DOMAIN events
           /\ \A e \in DOMAIN events :
                 IF e \in subset
                 THEN /\ Flagged(out.events[e], action)
                      /\ SameButFlags(events[e], out.events[e])
                      /\ action = "archive" => out.events[e].is_active = events[e].is_active
                      /\ action # "archive"
                            => out.events[e].is_archived = events[e].is_archived
                 ELSE out.events[e] = events[e]
           /\ out.photos = photos
           /\ out.users = users

\* u1 has archived its events 1 and 2; event 3 of u2 is not archived, and u1's
\* request to deactivate 1, 2, 3 and the never issued 4 counts 2 and leaves 3.
C12_Witness ==
    /\ DOMAIN events = {1, 2, 3}
    /\ events[1].host_id = "u1" /\ events[2].host_id = "u1" /\ events[3].host_id = "u2"
    /\ events[1].is_archived /\ events[2].is_archived /\ ~events[3].is_archived
    /\ 4 \in EventIds
    /\ LET out == bulk_actions_on_events("u1", {1, 2, 3, 4}, "deactivate")
       IN /\ out.resp.body.count = 2
          /\ ~out.events[1].is_active /\ ~out.events[2].is_active
          /\ out.events[3] = events[3]

\* Action names the endpoint does not know.
UnknownActions == {"purge", "delete", "Archive", ""}

\* C13: a bulk request whose action is not archive, activate or deactivate is
\* answered 400 and changes no event (nor anything else), whoever asks and
\* whatever ids are listed.
C13_UnknownActionIs400 ==
    \A uid \in AllUids, event_ids \in SUBSET EventIds, action \in UnknownActions :
        LET out == bulk_actions_on_events(uid, event_ids, action)
        IN /\ out.resp.status = 400
           /\ out.events = events
           /\ out.photos = photos
           /\ out.users = users

\* u1 hosts the active events 1 and 2 and asks to purge them: 400, both kept.
C13_Witness ==
    /\ {1, 2} \subseteq DOMAIN events
    /\ events[1].host_id = "u1" /\ events[2].host_id = "u1"
    /\ events[1].is_active /\ events[2].is_active
    /\ bulk_actions_on_events("u1", {1, 2}, "purge").resp.status = 400
    /\ bulk_actions_on_events("u1", {1, 2}, "purge").events = events

----------------------------------------------------------------------------
(* SpecAlbum: lists longer than a page *)

\* u1 hosts events 1, 2 and 3; event 1 holds five photos, three of them approved.
AlbumStore ==
    Store("u1" :> StoredUser(Ann),
          [e \in 1..3 |-> NewEvent("u1", Party)],
          [p \in 1..5 |->
              StoredPhoto(p, 1, Jpg, NULL, Some(p <= 3),
                          IF p = 1 THEN Guest ELSE NULL, NoText)])

Album ==
    [subjects |-> {Ann},
     max_events |-> MaxEvents,
     max_photos |-> MaxPhotos,
     max_inflight |-> 1,
     event_creates |-> {Party},
     event_updates |-> {[name |-> "party"]},
     cover_files |-> {[content_type |-> Plain, size |-> 1]},
     bulk_actions |-> {"purge"},
     photo_updates |-> {[approved |-> Some(TRUE)], [approved |-> Some(FALSE)]},
     pages |-> {1, 2},
     page_sizes |-> {2},
     passwords |-> {NULL, "pw1"},
     captions |-> {NULL},
     photo_files |-> {GoodPhoto}]

InitAlbum == InitFrom({EmptyStore, GuestPhotoStore, AlbumStore})

NextAlbum == NextOver(Album)

SpecAlbum == InitAlbum /\ [][NextAlbum]_vars

\* page >= 1 and 1 <= page_size <= 100, as far as the lists here are long.
ListPages == 1..4
ListPageSizes == 1..3

\* The page arithmetic of a list response over total matching rows.
PageOf(body, items, total, page, page_size) ==
    LET offset == (page - 1) * page_size
        returned == Min(page_size, Max(0, total - offset))
    IN /\ body.total = total
       /\ Len(items) = returned
       /\ body.has_more = ((offset + returned) < total)
       /\ body.page = page
       /\ body.page_size = page_size

FifteenRows == [i \in 1..15 |-> i]

\* C14: the event listing, the host photo listing and the public photo listing
\* skip (page - 1) * page_size rows, return min(page_size, max(0, total -
\* offset)) items, and set has_more exactly when offset + returned < total,
\* total being the host's events, the event's photos, and the event's approved
\* photos; over 15 rows, page 2 of size 10 returns 5 rows and has_more false.
C14_PageArithmetic ==
    /\ \A page \in ListPages, page_size \in ListPageSizes :
          /\ \A user \in AllSubjects :
                LET out == list_events(user, page, page_size)
                    known == UsersWithEmail(user.email)
                    host_id == IF known = {} THEN user.uid ELSE CHOOSE id \in known : TRUE
                IN out.resp.status = 200 =>
                      PageOf(out.resp.body, out.resp.body.events,
                             Cardinality({e \in DOMAIN events : events[e].host_id = host_id}),
                             page, page_size)
          /\ \A uid \in AllUids, e \in EventIds :
                LET out == get_event_photos(uid, e, page, page_size)
                IN out.resp.status = 200 =>
                      PageOf(out.resp.body, out.resp.body.photos,
                             Cardinality({p \in DOMAIN photos : photos[p].event_id = e}),
                             page, page_size)
          /\ \A slug \in EventIds :
                LET out == get_public_event_photos(slug, page, page_size)
                IN out.resp.status = 200 =>
                      PageOf(out.resp.body, out.resp.body.photos,
                             Cardinality({p \in DOMAIN photos :
                                             /\ photos[p].event_id = slug
                                             /\ photos[p].approved = Some(TRUE)}),
                             page, page_size)
    /\ Len(Paginate(FifteenRows, 2, 10)) = 5
    /\ ~HasMore(FifteenRows, 2, 10)
    /\ Len(Paginate(FifteenRows, 1, 10)) = 10
    /\ HasMore(FifteenRows, 1, 10)

\* Five photos on event 1, three approved: page 2 of size 2 of the host's list
\* has 2 rows and more to come, page 3 has the last row, page 4 none; the
\* public list ends on its page 2; the host's three events fill page 1 of size 3.
C14_Witness ==
    /\ Cardinality(PhotosOf(1)) = 5
    /\ Cardinality(ApprovedPhotosOf(1)) = 3
    /\ events[1].host_id = "u1"
    /\ LET page(n) == get_event_photos("u1", 1, n, 2).resp.body
       IN /\ Len(page(2).photos) = 2 /\ page(2).has_more
          /\ Len(page(3).photos) = 1 /\ ~page(3).has_more
          /\ Len(page(4).photos) = 0 /\ ~page(4).has_more
    /\ LET public == get_public_event_photos(1, 2, 2).resp.body
       IN Len(public.photos) = 1 /\ ~public.has_more /\ public.total = 3
    /\ LET mine == list_events(Ann, 1, 3).resp.body
       IN Len(mine.events) = 3 /\ ~mine.has_more /\ mine.total = 3

----------------------------------------------------------------------------
(* SpecIdentity: subjects whose external id or e-mail has changed *)

\* Ann's e-mail under a new external id, with a new display name.
AnnRenamed == Subject("u3", "a@x", "Anna")
\* Ann's external id under a new e-mail.
AnnMoved == Subject("u1", "c@x", "Ann")

IdentitySubjects == AllSubjects \cup {AnnRenamed, AnnMoved}

Identity ==
    [subjects |-> {Ann, Bob, AnnRenamed, AnnMoved},
     max_events |-> MaxEvents,
     max_photos |-> MaxPhotos - 1,
     max_inflight |-> 1,
     event_creates |-> {Party},
     event_updates |-> {[name |-> "renamed"]},
     cover_files |-> {[content_type |-> Plain, size |-> 1]},
     bulk_actions |-> {"purge"},
     photo_updates |-> {[approved |-> Some(TRUE)]},
     pages |-> {1},
     page_sizes |-> {1},
     passwords |-> {NULL, "pw1"},
     captions |-> {NULL},
     photo_files |-> {GoodPhoto}]

InitIdentity == InitFrom({EmptyStore, GuestPhotoStore})

NextIdentity == NextOver(Identity)

SpecIdentity == InitIdentity /\ [][NextIdentity]_vars

\* table holds every user of users under the same id with the same e-mail,
\* and no e-mail twice.
KeepsIdentities(table) ==
    /\ \A id \in DOMAIN users : id \in DOMAIN table /\ table[id].email = users[id].email
    /\ \A a, b \in DOMAIN table : table[a].email = table[b].email => a = b

\* C15: no e-mail is stored twice; resolving a subject whose e-mail is stored
\* returns the user stored with that e-mail, whatever the subject's external
\* id, and adds no user; resolving an unseen e-mail stores it under the
\* subject's external id; and no request changes the id or the e-mail of a
\* stored user, so the id an e-mail got at its first resolution is the one
\* every later resolution returns.
C15_ResolvedByEmail ==
    /\ KeepsIdentities(users)
    /\ \A s \in IdentitySubjects :
          LET r == get_or_create_user(s)
              known == UsersWithEmail(s.email)
          IN /\ KeepsIdentities(r.users)
             /\ known # {} => /\ r.ok
                              /\ r.id \in known
                              /\ DOMAIN r.users = DOMAIN users
             /\ known = {} /\ r.ok => /\ r.id = s.uid
                                      /\ DOMAIN r.users = DOMAIN users \cup {s.uid}
                                      /\ r.users[s.uid].email = s.email
             /\ \A d \in EventCreates :
                   LET out == create_event(s, d)
                   IN /\ KeepsIdentities(out.users)
                      /\ out.resp.status = 201 /\ known # {}
                            => out.events[out.resp.event].host_id \in known
             /\ \A page \in Pages, size \in PageSizes :
                   KeepsIdentities(list_events(s, page, size).users)
    /\ \A uid \in AllUids :
          LET Keeps(out) == KeepsIdentities(out.users) IN AllAuthenticated(uid, Keeps)
    /\ LET Keeps(out) == KeepsIdentities(out.users) IN AllPublic(Keeps) /\ AllNotify(Keeps)

\* a@x was first stored under u1; a request carrying a@x under the external id
\* u3 has been resolved (the name it brought is stored on u1), no user u3 was
\* made, and the next event it creates is hosted by u1.
C15_Witness ==
    /\ "u1" \in DOMAIN users
    /\ users["u1"].email = "a@x"
    /\ users["u1"].name = "Anna"
    /\ "u3" \notin DOMAIN users
    /\ get_or_create_user(AnnRotated).id = "u1"
    /\ get_or_create_user(AnnRenamed).id = "u1"

\* C16: resolving a verified subject never fails: not when the subject's
\* external id is already stored under another e-mail, and neither event
\* creation nor event listing answers 500 because of it.
C16_ResolutionNeverFails ==
    \A s \in IdentitySubjects :
        /\ get_or_create_user(s).ok
        /\ \A d \in EventCreates : create_event(s, d).resp.status # 500
        /\ \A page \in Pages, size \in PageSizes : list_events(s, page, size).resp.status # 500

----------------------------------------------------------------------------
(* The password gate, in SpecVisibility *)

\* What a visitor may type: nothing, the empty text, the stored password, and
\* texts that differ from it in case or by a trailing blank.
GatePasswords == Passwords \cup {"PW1", "pw1 "}

\* C17: on an active, non-archived event an upload gets past the password gate
\* (is not answered 401) exactly when the event has no password or the
\* supplied password equals the stored one; an upload stopped at the gate
\* stores nothing; a verify-password call, whatever its answer, leaves the
\* store as it is, so the gate answers the same after any number of them.
C17_PasswordGateIsStateless ==
    \A slug \in DOMAIN events :
        events[slug].is_active /\ ~events[slug].is_archived =>
            \A password \in GatePasswords :
                /\ \A file \in PhotoFiles :
                      LET out == upload_public_photo(slug, file, NULL, password)
                      IN /\ out.resp.status # 401
                            <=> (events[slug].password = NULL
                                 \/ password = events[slug].password)
                         /\ out.resp.status = 401 =>
                               out.photos = photos /\ out.next_photo = next_photo
                         /\ out.resp.status = 200 <=>
                               /\ out.resp.status # 401
                               /\ IsImage(file.content_type)
                               /\ file.size > 0 /\ file.size <= max_size
                /\ password # NULL =>
                      LET out == verify_event_password_endpoint(slug, password)
                      IN /\ out.users = users /\ out.events = events
                         /\ out.photos = photos /\ out.inflight = inflight
                         /\ out.next_photo = next_photo /\ out.next_event = next_event
                         /\ out.resp.status = 200
                               <=> (events[slug].password = NULL
                                    \/ password = events[slug].password)

\* An event with the password pw1 that holds a visitor's photo (an upload got
\* past the gate): verify-password with pw1 answers 200 and changes nothing,
\* and in that same state an upload with no password or with another one is
\* answered 401 and adds no photo, while one with pw1 is stored.
C17_Witness ==
    \E slug \in DOMAIN events :
        /\ events[slug].password = "pw1"
        /\ events[slug].is_active /\ ~events[slug].is_archived
        /\ \E p \in PhotosOf(slug) : photos[p].uploaded_by = NULL
        /\ verify_event_password_endpoint(slug, "pw1").resp.status = 200
        /\ verify_event_password_endpoint(slug, "pw1").photos = photos
        /\ upload_public_photo(slug, GoodPhoto, NULL, NULL).resp.status = 401
        /\ upload_public_photo(slug, GoodPhoto, NULL, "guess").resp.status = 401
        /\ upload_public_photo(slug, GoodPhoto, NULL, "guess").photos = photos
        /\ upload_public_photo(slug, GoodPhoto, NULL, "pw1").resp.status = 200

----------------------------------------------------------------------------
(* SpecRace: a public upload and an event delete that overlap *)

\* photos.event_id references events.id: the database refuses a photo row
\* whose event is gone, and an event row that photos still reference.
ForeignKeyHolds(event_id) == event_id \in DOMAIN events

\* upload_public_photo up to `await file.read()`, where other requests run:
\* the event is resolved, the password gate and the content type are passed.
upload_public_photo_read(slug, file, caption, password) ==
    LET v == get_event_by_slug(slug)
        req == [file |-> file, caption |-> caption, password |-> password]
        fail(status, detail) ==
            Same(Response("upload_public_photo", Anonymous, slug, 0, req,
                          status, detail, NoBody))
    IN IF v.status # 200 THEN fail(v.status, v.detail)
       ELSE IF /\ events[slug].password # NULL /\ events[slug].password # ""
               /\ (password = NULL \/ password = "")
       THEN fail(401, "Password required to upload photos to this event.")
       ELSE IF /\ events[slug].password # NULL /\ events[slug].password # ""
               /\ ~verify_event_password(events[slug], password)
       THEN fail(401, "Incorrect password.")
       ELSE IF ~IsImage(file.content_type) THEN fail(400, "File must be an image.")
       ELSE [Same(NoResponse)
             EXCEPT !.inflight = inflight \cup
                        {[kind |-> "upload", slug |-> slug, file |-> file,
                          caption |-> caption, req |-> req]}]

\* upload_public_photo after the read: the size tests, then db.add / db.commit
\* of a photo of the event resolved before the read.
upload_public_photo_store(job) ==
    LET photo_id == next_photo
        done(status, detail, body) ==
            [Same(Response("upload_public_photo", Anonymous, job.slug, 0, job.req,
                           status, detail, body))
             EXCEPT !.inflight = inflight \ {job}]
    IN IF job.file.size > max_size
       THEN done(400, "File size exceeds maximum allowed size (10MB).", NoBody)
       ELSE IF job.file.size = 0 THEN done(400, "File is empty.", NoBody)
       ELSE IF ~ForeignKeyHolds(job.slug)
       THEN done(500, "Internal Server Error", NoBody)
       ELSE [done(200, "ok",
                  PhotoResponse(photo_id,
                                new_photo(photo_id, job.slug, job.file, job.caption)))
             EXCEPT !.photos = photos @@
                        (photo_id :> new_photo(photo_id, job.slug, job.file, job.caption)),
                    !.next_photo = next_photo + 1]

\* delete_event up to the flush: ownership is verified and the event's photos
\* collection is loaded for the cascade.
delete_event_load(uid, event_id) ==
    LET v == verify_event_ownership(event_id, uid) IN
    IF v.status # 200
    THEN Same(Response("delete_event", uid, event_id, 0, NoReq,
                       v.status, v.detail, NoBody))
    ELSE [Same(NoResponse)
          EXCEPT !.inflight = inflight \cup
                     {[kind |-> "delete", uid |-> uid, event_id |-> event_id,
                       loaded |-> PhotosOf(event_id)]}]

\* The rest of db.commit(): DELETE of the loaded photos, then of the event.
\* A photo committed since the load still references the event: the database
\* either removes it with the event (ON DELETE CASCADE) or refuses the delete,
\* and the transaction is rolled back.
delete_event_flush(job, on_delete_cascade) ==
    LET late == PhotosOf(job.event_id) \ job.loaded
        done(status, detail) ==
            [Same(Response("delete_event", job.uid, job.event_id, 0, NoReq,
                           status, detail, NoBody))
             EXCEPT !.inflight = inflight \ {job}]
    IN IF job.event_id \notin DOMAIN events
       THEN done(500, "Internal Server Error")
       ELSE IF late # {} /\ ~on_delete_cascade
       THEN done(500, "Internal Server Error")
       ELSE [done(200, "Event and all associated assets have been deleted.")
             EXCEPT !.events = [e \in DOMAIN events \ {job.event_id} |-> events[e]],
                    !.photos = [p \in DOMAIN photos \ PhotosOf(job.event_id)
                                   |-> photos[p]]]

Race ==
    [subjects |-> {Ann},
     max_events |-> MaxEvents,
     max_photos |-> MaxPhotos,
     max_inflight |-> 1,
     event_creates |-> {Party},
     event_updates |-> {[name |-> "renamed"]},
     cover_files |-> {[content_type |-> Plain, size |-> 1]},
     bulk_actions |-> {"purge"},
     photo_updates |-> {[approved |-> Some(TRUE)]},
     pages |-> {1},
     page_sizes |-> {1},
     passwords |-> {NULL, "pw1"},
     captions |-> {NULL},
     photo_files |-> {GoodPhoto}]

InitRace == InitFrom({EmptyStore, GuestPhotoStore})

NextRace ==
    \/ NextOver(Race)
    \/ \E slug \in EventRange(Race), file \in Race.photo_files :
          /\ next_photo <= Race.max_photos
          /\ Cardinality(inflight) < Race.max_inflight
          /\ Perform(upload_public_photo_read(slug, file, NULL, NULL))
    \/ \E job \in {j \in inflight : j.kind = "upload"} :
          Perform(upload_public_photo_store(job))
    \/ \E uid \in Uids(Race), event_id \in EventRange(Race) :
          /\ Cardinality(inflight) < Race.max_inflight
          /\ Perform(delete_event_load(uid, event_id))
    \/ \E job \in {j \in inflight : j.kind = "delete"}, on_delete_cascade \in BOOLEAN :
          Perform(delete_event_flush(job, on_delete_cascade))

SpecRace == InitRace /\ [][NextRace]_vars

\* The photos of table whose event is not in the events of rows.
Orphans(table, rows) == {p \in DOMAIN table : table[p].event_id \notin DOMAIN rows}

\* C18: every stored photo's event is stored, in every state an overlap of a
\* public upload with an event delete can reach; a delete that succeeds takes
\* the event and all its photos away in one step, and neither half of an
\* overlapping upload or delete leaves a photo without its event.
C18_NoOrphanPhotos ==
    /\ Orphans(photos, events) = {}
    /\ \A uid \in AllUids, e \in EventIds :
          LET out == delete_event(uid, e)
          IN /\ Orphans(out.photos, out.events) = {}
             /\ out.resp.status = 200 =>
                   /\ e \notin DOMAIN out.events
                   /\ PhotosOfIn(out.photos, e) = {}
                   /\ DOMAIN out.photos = DOMAIN photos \ PhotosOf(e)
    /\ \A job \in inflight :
          /\ job.kind = "upload" =>
                LET out == upload_public_photo_store(job)
                IN /\ Orphans(out.photos, out.events) = {}
                   /\ job.slug \notin DOMAIN events => out.photos = photos
          /\ job.kind = "delete" =>
                \A on_delete_cascade \in BOOLEAN :
                    Orphans(delete_event_flush(job, on_delete_cascade).photos,
                            delete_event_flush(job, on_delete_cascade).events) = {}

\* An upload resolved its event, the event was deleted with its photos while
\* the file was read, and the upload is about to store its photo: the insert
\* is refused and no photo is added.
C18_Witness ==
    \E job \in inflight :
        /\ job.kind = "upload"
        /\ job.slug \notin DOMAIN events
        /\ job.slug < next_event
        /\ upload_public_photo_store(job).resp.status = 500
        /\ upload_public_photo_store(job).photos = photos

----------------------------------------------------------------------------
(* The host view, in Spec *)

\* body is the host view of event e as stored in out: the share link is the
\* frontend base without its trailing slash, then /event/<id>; the count is
\* of all photos of e; updated_at is set, to created_at when none is stored.
HostView(body, e, out) ==
    /\ body.id = e
    /\ body.share_link = <<"u", "/", "event", "/", e>>
    /\ body.photo_count = Cardinality(PhotosOfIn(out.photos, e))
    /\ body.updated_at # NULL
    /\ out.events[e].updated_at = NULL => body.updated_at = out.events[e].created_at

\* C19: every successful answer of event creation, event listing, event
\* detail, event update and cover upload shows each event with its share
\* link, the number of all its photos, and a non-null updated_at.
C19_HostViewEverywhere ==
    /\ \A user \in AllSubjects :
          /\ \A d \in EventCreates :
                LET out == create_event(user, d)
                IN out.resp.status = 201 => HostView(out.resp.body, out.resp.event, out)
          /\ \A page \in Pages, size \in PageSizes :
                LET out == list_events(user, page, size)
                IN out.resp.status = 200 =>
                      \A i \in DOMAIN out.resp.body.events :
                          HostView(out.resp.body.events[i], out.resp.body.events[i].id, out)
    /\ \A uid \in AllUids, e \in EventIds :
          /\ LET out == get_event_detail(uid, e)
             IN out.resp.status = 200 => HostView(out.resp.body, e, out)
          /\ \A d \in EventUpdates :
                LET out == update_event_metadata(uid, e, d)
                IN out.resp.status = 200 => HostView(out.resp.body, e, out)
          /\ \A file \in CoverFiles :
                LET out == upload_event_cover_image(uid, e, file, TRUE)
                IN out.resp.status = 200 => HostView(out.resp.body, e, out)

----------------------------------------------------------------------------
(* SpecPatch: partial updates, explicit nulls included *)

Secret == [Party EXCEPT !.password = "pw1"]

Patch ==
    [subjects |-> {Ann},
     max_events |-> MaxEvents,
     max_photos |-> MaxPhotos,
     max_inflight |-> 1,
     event_creates |-> {Secret},
     event_updates |-> {[password |-> NULL], [name |-> NULL],
                        [name |-> "renamed", is_active |-> FALSE]},
     cover_files |-> {[content_type |-> Plain, size |-> 1]},
     bulk_actions |-> {"purge"},
     photo_updates |-> {[approved |-> NoBool], [approved |-> Some(TRUE)],
                        [approved |-> Some(FALSE)], [caption |-> "nice"]},
     pages |-> {1},
     page_sizes |-> {1},
     passwords |-> {NULL, "pw1"},
     captions |-> {"hi"},
     photo_files |-> {GoodPhoto}]

InitPatch == InitFrom({EmptyStore, GuestPhotoStore})

NextPatch == NextOver(Patch)

SpecPatch == InitPatch /\ [][NextPatch]_vars

\* The payloads of an event update, with explicit nulls.
EventPatches ==
    EventUpdates \cup {[name |-> NULL], [cover_image_url |-> NULL],
                       [password |-> NULL, name |-> "renamed"], [name |-> "party"]}

\* after is before with the fields of payload set to the payload's values.
Merged(before, payload, after) ==
    \A f \in DOMAIN before :
        after[f] = IF f \in DOMAIN payload THEN payload[f] ELSE before[f]

\* out changes no event but e and no photo but p (0 for none), and no user.
OnlyRecord(e, p, out) ==
    /\ DOMAIN out.events = DOMAIN events
    /\ \A x \in DOMAIN events : x # e => out.events[x] = events[x]
    /\ DOMAIN out.photos = DOMAIN photos
    /\ \A x \in DOMAIN photos : x # p => out.photos[x] = photos[x]
    /\ out.users = users

----------------------------------------------------------------------------
(* Refused requests, in SpecVisibility *)

\* Every header a client can send: the refused ones and a good one per subject.
AllHeaders == Headers \cup {<<"Bearer", t>> : t \in ValidTokens} \cup {<<"BEARER", "tok_u1">>}

\* out is an outcome that has written nothing.
NothingWritten(out) ==
    /\ out.users = users
    /\ out.events = events
    /\ out.photos = photos
    /\ out.next_event = next_event
    /\ out.next_photo = next_photo

\* C21: a request answered 400, 401, 403 or 404 has written nothing: whoever
\* sends whichever host or visitor request; a request without a usable bearer
\* credential is answered 401 before its handler runs; and an upload with a
\* wrong or missing password (401), a non-image, empty or oversized file (400),
\* a cover that is no image (400), and a host request on another host's or a
\* missing event (403, 404) are answered so.
C21_RefusedRequestsWriteNothing ==
    LET Refused(out) ==
            out.resp.status \in {400, 401, 403, 404} => NothingWritten(out)
    IN /\ \A uid \in AllUids : AllAuthenticated(uid, Refused)
       /\ AllPublic(Refused)
       /\ \A authorization \in AllHeaders :
             LET who == get_current_user(authorization)
                 Checked(out) ==
                     /\ Refused(Depends(authorization, out))
                     /\ authorization \in Headers =>
                           Depends(authorization, out).resp.status = 401
                     /\ authorization \notin Headers => Depends(authorization, out) = out
             IN /\ who.status = 401 <=> authorization \in Headers
                /\ \A d \in EventCreates : Checked(create_event(who.user, d))
                /\ \A e \in EventIds :
                      /\ Checked(delete_event(who.user.uid, e))
                      /\ \A d \in EventUpdates :
                            Checked(update_event_metadata(who.user.uid, e, d))
                      /\ \A p \in PhotoIds : Checked(delete_photo(who.user.uid, e, p, TRUE))
       /\ \A e \in DOMAIN events, uid \in AllUids :
             /\ uid # events[e].host_id => delete_event(uid, e).resp.status = 403
             /\ delete_event(uid, next_event).resp.status = 404
             /\ \A file \in CoverFiles :
                   uid = events[e].host_id /\ ~IsImage(file.content_type) =>
                       upload_event_cover_image(uid, e, file, TRUE).resp.status = 400
       /\ \A slug \in DOMAIN events :
             events[slug].is_active /\ ~events[slug].is_archived =>
                 \A file \in PhotoFiles, password \in Passwords :
                     LET status == upload_public_photo(slug, file, NULL, password).resp.status
                         gate == events[slug].password # NULL
                                    /\ password # events[slug].password
                     IN /\ gate => status = 401
                        /\ ~gate /\ (~IsImage(file.content_type) \/ file.size = 0
                                     \/ file.size > max_size) => status = 400

\* An active event of u1 with the password pw1 and a visitor's photo, at which
\* every kind of refusal is met: another user's delete (403), a delete of a
\* missing event (404), a delete without a credential (401), a cover that is
\* no image (400), an upload with a wrong password (401) and an empty upload
\* with the right one (400); none of them writes.
C21_Witness ==
    \E e \in DOMAIN events :
        /\ events[e].host_id = "u1"
        /\ events[e].password = "pw1"
        /\ events[e].is_active /\ ~events[e].is_archived
        /\ PhotosOf(e) # {}
        /\ delete_event("u2", e).resp.status = 403
        /\ NothingWritten(delete_event("u2", e))
        /\ delete_event("u1", next_event).resp.status = 404
        /\ Depends(<<>>, delete_event("nobody", e)).resp.status = 401
        /\ NothingWritten(Depends(<<"Bearer", "expired">>, delete_event("nobody", e)))
        /\ upload_event_cover_image("u1", e, [content_type |-> Plain, size |-> 1], TRUE)
              .resp.status = 400
        /\ upload_public_photo(e, GoodPhoto, NULL, "guess").resp.status = 401
        /\ upload_public_photo(e, [GoodPhoto EXCEPT !.size = 0], NULL, "pw1").resp.status = 400
        /\ NothingWritten(upload_public_photo(e, [GoodPhoto EXCEPT !.size = 0], NULL, "pw1"))

----------------------------------------------------------------------------
(* Remote asset failures, in Spec *)

\* C22: whether or not the remote asset delete succeeds, delete_photo by the
\* host removes the photo and answers 200, and bulk_delete_photos tries the
\* asset delete of every requested photo of the event, removes them all,
\* answers 200 with their number, whichever of the asset deletes fail; no
\* other photo is removed.
C22_AssetDeleteFailureIsSwallowed ==
    \A e \in DOMAIN events :
        LET uid == events[e].host_id IN
        /\ \A p \in PhotosOf(e), delete_ok \in BOOLEAN :
              LET out == delete_photo(uid, e, p, delete_ok)
              IN /\ out.resp.status = 200
                 /\ Len(out.resp.cdn) = 1 /\ out.resp.cdn[1].ok = delete_ok
                 /\ DOMAIN out.photos = DOMAIN photos \ {p}
                 /\ \A q \in DOMAIN out.photos : out.photos[q] = photos[q]
                 /\ out.events = events
        /\ \A photo_ids \in SUBSET PhotoIds :
              \A failing \in SUBSET photo_ids :
                  LET out == bulk_delete_photos(uid, e, photo_ids, failing)
                      asked == photo_ids \cap PhotosOf(e)
                  IN /\ out.resp.status = 200
                     /\ out.resp.body.count = Cardinality(asked)
                     /\ Len(out.resp.cdn) = Cardinality(asked)
                     /\ Cardinality({i \in DOMAIN out.resp.cdn : ~out.resp.cdn[i].ok})
                           = Cardinality(failing \cap asked)
                     /\ DOMAIN out.photos = DOMAIN photos \ asked
                     /\ \A q \in DOMAIN out.photos : out.photos[q] = photos[q]
                     /\ out.events = events

\* An event with two photos: the host's delete of one whose asset delete fails
\* removes it with 200, and a bulk delete of both in which the first asset
\* delete fails still tries the second and removes both.
C22_Witness ==
    \E e \in DOMAIN events :
        /\ PhotosOf(e) = {1, 2}
        /\ LET one == delete_photo(events[e].host_id, e, 1, FALSE)
           IN one.resp.status = 200 /\ DOMAIN one.photos = {2}
        /\ LET both == bulk_delete_photos(events[e].host_id, e, {1, 2}, {1})
           IN /\ both.resp.status = 200
              /\ both.resp.body.count = 2
              /\ ~both.resp.cdn[1].ok /\ both.resp.cdn[2].ok
              /\ DOMAIN both.photos = {}

----------------------------------------------------------------------------
(* What a visitor can tell, in SpecVisibility *)

\* What the client sees of an outcome.
Seen(out) == <<out.resp.status, out.resp.detail, out.resp.body>>

\* C23: for each visitor endpoint and each input, the answer (status, detail
\* and body) for an event that is inactive or archived equals the answer for a
\* slug that names no event, whatever the hidden event's password and photos.
C23_HiddenLooksAbsent ==
    \A hidden \in DOMAIN events, absent \in EventIds \ DOMAIN events :
        Hidden(events[hidden]) =>
            /\ Seen(get_public_event_info(hidden)) = Seen(get_public_event_info(absent))
            /\ \A page \in Pages, size \in PageSizes :
                  Seen(get_public_event_photos(hidden, page, size))
                     = Seen(get_public_event_photos(absent, page, size))
            /\ \A password \in Passwords :
                  /\ password # NULL =>
                        Seen(verify_event_password_endpoint(hidden, password))
                           = Seen(verify_event_password_endpoint(absent, password))
                  /\ \A file \in PhotoFiles, caption \in {NULL, "hi"} :
                        Seen(upload_public_photo(hidden, file, caption, password))
                           = Seen(upload_public_photo(absent, file, caption, password))

\* A hidden event with the password pw1 and an approved photo, and a slug
\* that names nothing: the info and the upload with the right password are
\* both answered with the same 404.
C23_Witness ==
    \E hidden \in DOMAIN events :
        /\ Hidden(events[hidden])
        /\ events[hidden].password = "pw1"
        /\ ApprovedPhotosOf(hidden) # {}
        /\ next_event \notin DOMAIN events
        /\ Seen(get_public_event_info(hidden)) = Seen(get_public_event_info(next_event))
        /\ Seen(upload_public_photo(hidden, GoodPhoto, NULL, "pw1"))
              = Seen(upload_public_photo(next_event, GoodPhoto, NULL, "pw1"))
        /\ get_public_event_info(hidden).resp.status = 404

----------------------------------------------------------------------------
(* Moderation without end, in SpecPatch *)

\* C24: in every reachable state, for every photo of every event and each of
\* the two values, the host's request to set approved to that value stores
\* it and is answered 200, whatever approved was (true, false or null) and
\* whether or not the e-mail it owes can be sent; so neither value is final.
C24_ApprovedHasNoTerminalState ==
    \A e \in DOMAIN events :
        \A p \in PhotosOf(e), value \in BOOLEAN :
            LET out == update_photo(events[e].host_id, e, p, [approved |-> Some(value)])
                owed == out.inflight \ inflight
            IN /\ out.photos[p].approved = Some(value)
               /\ out.photos[p].event_id = e
               /\ e \in DOMAIN out.events
               /\ IF owed = {}
                  THEN out.resp.status = 200 /\ out.resp.body.approved = Some(value)
                  ELSE \A job \in owed : job.done.status = 200

\* A visitor's photo that a moderation has approved (its e-mail sent), which
\* the host can set back to unapproved and, from there, approve again.
C24_Witness ==
    \E e \in DOMAIN events, p \in DOMAIN photos :
        /\ photos[p].event_id = e
        /\ photos[p].uploaded_by = Guest
        /\ photos[p].approved = Some(TRUE)
        /\ inflight = {}
        /\ LET back == update_photo(events[e].host_id, e, p, [approved |-> Some(FALSE)])
           IN /\ back.photos[p].approved = Some(FALSE)
              /\ \E job \in back.inflight : job.kind = "rejected" /\ job.done.status = 200

----------------------------------------------------------------------------
(* Ownership links, in SpecBulk *)

\* Request bodies that name the keys and links of a record.
EventBodies ==
    {[host_id |-> "u2"], [host_id |-> "u1"], [host_id |-> "u2", name |-> "renamed"],
     [id |-> 2, is_active |-> FALSE]}
PhotoBodies ==
    {[event_id |-> 2], [event_id |-> 2, approved |-> Some(TRUE)],
     [id |-> 1, caption |-> "nice"], [uploaded_by |-> "u2"]}

\* out keeps every event that is still there under its host and every photo
\* that is still there under its event, hands out no id but the next one, and
\* every event of out has its host among the users of out.
KeepsLinks(out) ==
    /\ \A e \in DOMAIN events \cap DOMAIN out.events :
          /\ out.events[e].host_id = events[e].host_id
          /\ out.events[e].created_at = events[e].created_at
    /\ \A p \in DOMAIN photos \cap DOMAIN out.photos :
          /\ out.photos[p].event_id = photos[p].event_id
          /\ out.photos[p].uploaded_at = photos[p].uploaded_at
    /\ DOMAIN out.events \subseteq DOMAIN events \cup {next_event}
    /\ DOMAIN out.photos \subseteq DOMAIN photos \cup {next_photo}
    /\ \A e \in DOMAIN out.events : out.events[e].host_id \in DOMAIN out.users

\* C25: every event's host is a stored user, and no request of any caller -
\* create, list, update, delete, cover upload, bulk action, moderation, photo
\* delete, visitor upload, pending notification, nor an update whose body
\* names host_id, event_id or id - changes the host of an event or the event
\* of a photo, or stores a record under an id already handed out.
C25_LinksAreImmutable ==
    /\ \A e \in DOMAIN events : events[e].host_id \in DOMAIN users
    /\ \A uid \in AllUids :
          /\ AllAuthenticated(uid, KeepsLinks)
          /\ \A e \in EventIds :
                /\ \A body \in EventBodies :
                      KeepsLinks(update_event_metadata(uid, e, EventUpdate(body)))
                /\ \A p \in PhotoIds, body \in PhotoBodies :
                      KeepsLinks(update_photo(uid, e, p, UpdatePhotoRequest(body)))
    /\ AllPublic(KeepsLinks)
    /\ AllNotify(KeepsLinks)

\* An event of u1 that has been updated and holds a photo, with u2 a stored
\* user: u1's update whose body names host_id u2 next to a new name is
\* accepted, renames the event and leaves it with u1.
C25_Witness ==
    \E e \in DOMAIN events :
        /\ events[e].host_id = "u1"
        /\ events[e].updated_at = T_UPDATED
        /\ PhotosOf(e) # {}
        /\ "u2" \in DOMAIN users
        /\ LET out == update_event_metadata("u1", e,
                          EventUpdate([host_id |-> "u2", name |-> "renamed"]))
           IN /\ out.resp.status = 200
              /\ out.events[e].name = "renamed"
              /\ out.events[e].host_id = "u1"

----------------------------------------------------------------------------
(* The creator's access, in SpecIdentity *)

\* C26: the event a subject creates is stored with a host_id that the later
\* host endpoints accept for that subject (the subject's external id), and
\* every event the subject's listing returns passes verify_event_ownership,
\* and with it get, update and delete, for that subject; also for a subject
\* whose e-mail was first seen under another external id.
C26_CreatorKeepsAccess ==
    \A user \in IdentitySubjects :
        /\ \A d \in EventCreates :
              LET out == create_event(user, d)
              IN out.resp.status = 201 =>
                    out.events[out.resp.event].host_id = user.uid
        /\ \A page \in Pages, size \in PageSizes :
              LET out == list_events(user, page, size)
              IN out.resp.status = 200 =>
                    \A i \in DOMAIN out.resp.body.events :
                        LET e == out.resp.body.events[i].id
                        IN /\ verify_event_ownership(e, user.uid).status = 200
                           /\ get_event_detail(user.uid, e).resp.status = 200
                           /\ update_event_metadata(user.uid, e, [is_active |-> FALSE])
                                 .resp.status = 200
                           /\ delete_event(user.uid, e).resp.status = 200

----------------------------------------------------------------------------
(* SpecCovers: cover uploads of one host served by requests that overlap *)

\* upload_event_cover_image up to the quota gate: ownership, content type, the
\* read of the file, then get_user_upload_size over the committed rows.  No
\* row is locked and nothing is written: a request that passes holds its
\* file while the asset store is called.
upload_event_cover_image_gate(uid, event_id, file, request) ==
    LET v == verify_event_ownership(event_id, uid)
        usage == get_user_upload_size(uid)
        fail(status, detail) ==
            Same(Response("upload_event_cover_image", uid, event_id, 0, file,
                          status, detail, NoBody))
    IN IF v.status # 200 THEN fail(v.status, v.detail)
       ELSE IF ~IsImage(file.content_type) THEN fail(400, "File must be an image.")
       ELSE IF ~usage.ok THEN fail(500, "Internal Server Error")
       ELSE IF QuotaExceeded(usage.size, file.size)
            THEN fail(413, "Upload limit exceeded.")
       ELSE [Same(NoResponse)
             EXCEPT !.inflight = inflight \cup
                        {[kind |-> "cover", uid |-> uid, event_id |-> event_id,
                          file |-> file, request |-> request]}]

\* The rest of the handler: upload_image, then the three cover fields are
\* assigned and committed.  Usage is not read again.  An event deleted since
\* the gate makes the UPDATE match no row, which the handler answers 500.
upload_event_cover_image_commit(job, upload_ok) ==
    LET done(status, detail, body, ok) ==
            [Same([Response("upload_event_cover_image", job.uid, job.event_id, 0,
                            job.file, status, detail, body)
                   EXCEPT !.cdn = <<[call |-> "upload", ok |-> ok]>>])
             EXCEPT !.inflight = inflight \ {job}]
    IN IF ~upload_ok
       THEN done(500, "An error occurred during cover image upload", NoBody, FALSE)
       ELSE IF job.event_id \notin DOMAIN events
       THEN done(500, "An error occurred during cover image upload", NoBody, TRUE)
       ELSE LET event == [events[job.event_id] EXCEPT
                             !.cover_image_url = "cdn_url",
                             !.cover_thumbnail_url = "cdn_thumb",
                             !.cover_image_file_size = Some(ToText(job.file.size)),
                             !.updated_at = T_UPDATED]
            IN [done(200, "ok", EventFromAttributes(job.event_id, event), TRUE)
                EXCEPT !.events = [events EXCEPT ![job.event_id] = event]]

\* A host with a photo of 500 MiB and two events without cover.
TwoEventsHeavyStore ==
    Store("u1" :> StoredUser(Ann),
          (1 :> NewEvent("u1", Party)) @@ (2 :> NewEvent("u1", Party)),
          HeavyPhotos)

Covers ==
    [subjects |-> {Ann},
     max_events |-> MaxEvents,
     max_photos |-> MaxPhotos,
     max_inflight |-> 2,
     event_creates |-> {Party},
     event_updates |-> {[name |-> "renamed"]},
     cover_files |-> {[content_type |-> Png, size |-> 400 * MiB]},
     bulk_actions |-> {"purge"},
     photo_updates |-> {[approved |-> Some(TRUE)]},
     pages |-> {1},
     page_sizes |-> {1},
     passwords |-> {NULL, "pw1"},
     captions |-> {NULL},
     photo_files |-> {GoodPhoto}]

InitCovers == InitFrom({EmptyStore, TwoEventsHeavyStore})

NextCovers ==
    \/ NextOver(Covers)
    \/ \E uid \in Uids(Covers), event_id \in EventRange(Covers),
          file \in Covers.cover_files, request \in 1..Covers.max_inflight :
          /\ Cardinality(inflight) < Covers.max_inflight
          /\ \A job \in inflight : job.kind = "cover" => job.request # request
          /\ Perform(upload_event_cover_image_gate(uid, event_id, file, request))
    \/ \E job \in {j \in inflight : j.kind = "cover"}, upload_ok \in BOOLEAN :
          Perform(upload_event_cover_image_commit(job, upload_ok))

SpecCovers == InitCovers /\ [][NextCovers]_vars

----------------------------------------------------------------------------
(* SpecScope: photos in several events, of the same host and of another *)

\* Events 1 and 2 of u1 and event 3 of u2, each with one photo.
ScopeStore ==
    Store(("u1" :> StoredUser(Ann)) @@ ("u2" :> StoredUser(Bob)),
          (1 :> NewEvent("u1", Party)) @@ (2 :> NewEvent("u1", Party))
          @@ (3 :> NewEvent("u2", Party)),
          [p \in 1..3 |-> StoredPhoto(p, p, Jpg, NULL, Some(FALSE), Guest, NoText)])

Scope ==
    [subjects |-> {Ann, Bob},
     max_events |-> MaxEvents,
     max_photos |-> MaxPhotos + 1,
     max_inflight |-> 1,
     event_creates |-> {Party},
     event_updates |-> {[name |-> "renamed"]},
     cover_files |-> {[content_type |-> Plain, size |-> 1]},
     bulk_actions |-> {"purge"},
     photo_updates |-> {[approved |-> Some(TRUE)]},
     pages |-> {1},
     page_sizes |-> {1},
     passwords |-> {NULL, "pw1"},
     captions |-> {NULL},
     photo_files |-> {GoodPhoto}]

InitScope == InitFrom({EmptyStore, ScopeStore})

NextScope == NextOver(Scope)

SpecScope == InitScope /\ [][NextScope]_vars

\* C28: for the host of the event in the path, update_photo and delete_photo
\* of a stored photo of another event answer 404 and write nothing;
\* bulk_delete_photos removes exactly the requested photos of the event in
\* the path, reports their number, calls the asset store for them only, and
\* leaves every other photo, the requested ones of other events and of other
\* hosts' events included, as it was.
C28_PhotoOperationsAreScoped ==
    \A uid \in AllUids, e \in EventIds :
        verify_event_ownership(e, uid).status = 200 =>
            /\ \A p \in DOMAIN photos :
                  photos[p].event_id # e =>
                      /\ \A request \in PhotoUpdates :
                            LET out == update_photo(uid, e, p, request)
                            IN /\ out.resp.status = 404
                               /\ out = Same(out.resp)
                               /\ out.resp.notif = <<>>
                      /\ \A delete_ok \in BOOLEAN :
                            LET out == delete_photo(uid, e, p, delete_ok)
                            IN /\ out.resp.status = 404
                               /\ out = Same(out.resp)
                               /\ out.resp.cdn = <<>>
            /\ \A photo_ids \in SUBSET PhotoIds :
                  \A failing \in {{}, photo_ids} :
                      LET out == bulk_delete_photos(uid, e, photo_ids, failing)
                          gone == {p \in photo_ids \cap DOMAIN photos :
                                      photos[p].event_id = e}
                      IN /\ out.resp.status = 200
                         /\ out.resp.body.count = Cardinality(gone)
                         /\ Len(out.resp.cdn) = Cardinality(gone)
                         /\ DOMAIN out.photos = DOMAIN photos \ gone
                         /\ \A p \in DOMAIN out.photos : out.photos[p] = photos[p]
                         /\ out = [Same(out.resp) EXCEPT !.photos = out.photos]

\* The photo of event 1 is deleted; the photos of u1's other event and of
\* u2's event are stored, and a bulk delete on event 1 naming both deletes
\* none, as update and delete of either on event 1 answer 404.
C28_Witness ==
    /\ 1 \in DOMAIN events /\ events[1].host_id = "u1"
    /\ PhotosOf(1) = {}
    /\ \E p \in DOMAIN photos, q \in DOMAIN photos :
          /\ photos[p].event_id \in DOMAIN events
          /\ photos[q].event_id \in DOMAIN events
          /\ events[photos[p].event_id].host_id = "u1"
          /\ events[photos[q].event_id].host_id = "u2"
          /\ bulk_delete_photos("u1", 1, {p, q}, {}).resp.body.count = 0
          /\ bulk_delete_photos("u1", 1, {p, q}, {}).photos = photos
          /\ delete_photo("u1", 1, q, TRUE).resp.status = 404
          /\ update_photo("u1", 1, p, [approved |-> Some(TRUE)]).resp.status = 404

----------------------------------------------------------------------------
(* The two flags under bulk actions, in SpecBulk *)

\* C29: a bulk archive sets is_archived and leaves is_active of every event as
\* it was; a bulk activate or deactivate sets is_active and leaves is_archived
\* of every event as it was; so an archived event is archived after every
\* bulk action, and every request of a visitor for it is answered 404 and
\* writes nothing.
C29_BulkActionsWriteOneFlag ==
    /\ \A uid \in AllUids, event_ids \in SUBSET EventIds, action \in BulkEventActions :
          LET out == bulk_actions_on_events(uid, event_ids, action)
              matched == {e \in DOMAIN events : e \in event_ids /\ events[e].host_id = uid}
          IN /\ DOMAIN out.events = DOMAIN events
             /\ \A e \in DOMAIN events :
                   /\ action = "archive" =>
                         /\ out.events[e].is_active = events[e].is_active
                         /\ e \in matched => out.events[e].is_archived = TRUE
                   /\ action \in {"activate", "deactivate"} =>
                         /\ out.events[e].is_archived = events[e].is_archived
                         /\ e \in matched =>
                               out.events[e].is_active = (action = "activate")
                   /\ events[e].is_archived => out.events[e].is_archived
    /\ \A slug \in DOMAIN events :
          events[slug].is_archived =>
              LET NotFound(out) ==
                      /\ out.resp.status = 404
                      /\ out = Same(out.resp)
              IN AllPublicOn(slug, NotFound)

\* An event has been archived and deactivated by bulk actions; a bulk activate
\* of it sets is_active and leaves it archived, and the visitor is answered 404.
C29_Witness ==
    \E e \in DOMAIN events :
        /\ events[e].is_archived /\ ~events[e].is_active
        /\ events[e].updated_at = T_UPDATED
        /\ LET out == bulk_actions_on_events(events[e].host_id, {e}, "activate")
           IN /\ out.resp.body.count = 1
              /\ out.events[e].is_active
              /\ out.events[e].is_archived
        /\ get_public_event_info(e).resp.status = 404

----------------------------------------------------------------------------
(* Replacing a cover, in SpecQuota *)

\* The bytes of user uid apart from the cover of event e: the user's photos,
\* the covers of the user's other events and the avatar.
BytesApartFrom(uid, e) ==
    LET mine == {p \in DOMAIN photos : photos[p].uploaded_by = uid}
        hosted == {x \in DOMAIN events : events[x].host_id = uid /\ x # e}
    IN SumOver(mine, [p \in mine |-> Contribution(photos[p].file_size)])
       + SumOver(hosted, [x \in hosted |-> Contribution(events[x].cover_image_file_size)])
       + (IF uid \in DOMAIN users THEN Contribution(users[uid].avatar_file_size) ELSE 0)

\* C30: for the host of an event that has a cover, the usage the quota gate
\* compares with the ceiling holds the size of the cover in place: a file is
\* answered 413 exactly when the other bytes + the old cover + the file are
\* more than 1 GiB, also when the other bytes + the file are not; an accepted
\* file's length becomes the cover's size and nothing else is written, and in
\* every state the usage is the other bytes + the size of the cover now in
\* place, so a replaced cover's size is no part of it.
C30_ReplacedCoverIsCounted ==
    \A e \in DOMAIN events, file \in QuotaCoverFiles :
        events[e].cover_image_url # NULL /\ events[e].cover_image_file_size # NoText =>
            LET uid == events[e].host_id
                old == Contribution(events[e].cover_image_file_size)
                rest == BytesApartFrom(uid, e)
                out == upload_event_cover_image(uid, e, file, TRUE)
            IN /\ get_user_upload_size(uid).ok
               /\ get_user_upload_size(uid).size = rest + old
               /\ out.resp.status = 413 <=> rest + old + file.size > 1073741824
               /\ out.resp.status = 413 => out = Same(out.resp)
               /\ out.resp.status # 413 =>
                     /\ out.resp.status = 200
                     /\ out.events[e].cover_image_file_size = Some(ToText(file.size))
                     /\ out.photos = photos /\ out.users = users
                     /\ \A x \in DOMAIN events \ {e} : out.events[x] = events[x]

\* The host's photo of 500 MiB and a cover of 524 MiB fill the quota: a cover
\* of 50 MiB in its place would leave 550 MiB and is refused; the empty file
\* is accepted and becomes the cover.
C30_Witness ==
    \E e \in DOMAIN events :
        /\ events[e].cover_image_url = "cdn_url"
        /\ Contribution(events[e].cover_image_file_size) = 524 * MiB
        /\ BytesApartFrom(events[e].host_id, e) = 500 * MiB
        /\ BytesApartFrom(events[e].host_id, e) + 50 * MiB <= 1073741824
        /\ upload_event_cover_image(events[e].host_id, e,
              [content_type |-> Png, size |-> 50 * MiB], FALSE).resp.status = 413
        /\ upload_event_cover_image(events[e].host_id, e,
              [content_type |-> Png, size |-> 0], TRUE)
              .events[e].cover_image_file_size = Some(ToText(0))

====
